---------------------------- MODULE Spec2Model ----------------------------
(***************************************************************************)
(* PaleoCore Analyst: the section dashboard (CoreDashboard.tsx), the data  *)
(* entry and bulk import of a section's series (DataInputManager.tsx), the *)
(* fossil-record editor (FossilRecordsTab), the remote gateway             *)
(* (coreService.ts) and the age-model merge (generateAgeModel), the        *)
(* synthesis view (CoreSynthesisView.tsx), the cores and folders of App,   *)
(* and the guards of the AI-dependent functions of the gateway.            *)
(*                                                                         *)
(* A JavaScript object is a function whose DOMAIN is the set of its own    *)
(* keys; a value that may be null or undefined is a sequence of length 0   *)
(* or 1 (None, Some(x)); a JSON number-valued field holds a tagged value   *)
(* (Num(n), Infinity, NaN, Null, Text) so that typeof and isFinite are      *)
(* decided as the code decides them.                                       *)
(***************************************************************************)
EXTENDS Integers, Sequences, FiniteSets, TLC

VARIABLES
    store,            \* the remote sections table: id -> row, or absent
    sections,         \* CoreDashboard state: Section[]
    selectedSection,  \* CoreDashboard state: Section | null
    loadingSections,  \* CoreDashboard state
    calls,            \* remote calls in flight, in dispatch order
    status,           \* DataInputManager state: the status line
    importJob,        \* DataInputManager: the file parse begun by a confirmed mapping
    now,              \* the reading of Date.now()
    nOps,             \* operations begun so far: the mount and the user's
    fnArgs,           \* arguments of the pure function under call
    fnResult,         \* its result, None until it returns
    calibratedSections, \* CoreDashboard state: Section[] | null
    tiePoints,        \* CoreSynthesisView state: TiePoint[]
    isLoading,        \* CoreSynthesisView state
    error,            \* CoreSynthesisView state: string | null
    spliceIntervals,  \* CoreSynthesisView state: section id -> SpliceInterval
    toast,            \* App state: the toast on show, or null
    cores,            \* App state: Core[]
    folders,          \* App state: Folder[]
    selectedCore,     \* App state: Core | null
    editingCore,      \* App state: Core | null
    isCoreModalOpen,  \* App state
    confirmModalState, \* App state: isOpen and the onConfirm closure
    coresTable,       \* the remote cores table
    foldersTable,     \* the remote folders table
    isProcessing,     \* DataInputManager state
    isMappingHeaders, \* DataInputManager state: the mapping modal is open
    headerJob,        \* DataInputManager: the header parse begun by a file selection
    headerMap,        \* DataInputManager state: header -> key, or null
    acceptedEntries,  \* the manual entries the status line has reported as
                      \* added or updated, as <<section id, subsection>>
    ai,               \* coreService: the AI client, or null
    session,          \* App state: the session, or null
    microfossils,     \* App state: Microfossil[]
    epochFilter       \* CoreDashboard state: 'all' or an epoch

\* the state of the synthesis view
synthVars == <<calibratedSections, tiePoints, isLoading, error, spliceIntervals,
               toast>>

\* the state of the section dashboard and of its data-entry tab, without the
\* sections table and the calls in flight
viewVars == <<sections, selectedSection, loadingSections, status, importJob,
              now, nOps>>

\* the state of the section dashboard and of its data-entry tab
dashVars == <<store, sections, selectedSection, loadingSections, calls, status,
              importJob, now, nOps>>

\* the state of App and the remote tables behind it
appVars == <<cores, folders, selectedCore, editingCore, isCoreModalOpen,
             confirmModalState, coresTable, foldersTable>>

\* the state of the file import of the data-entry tab, and the AI client
dimVars == <<isProcessing, isMappingHeaders, headerJob, headerMap, acceptedEntries, ai>>

\* the session of App and the microfossils it has loaded
sessVars == <<session, microfossils>>

vars == <<store, sections, selectedSection, loadingSections, calls, status,
          importJob, now, nOps, fnArgs, sessVars, epochFilter, dimVars, fnResult, synthVars, appVars>>

\* bounds of the model
MaxOps == 3
MaxClock == 1
MaxAvgPoints == 2

-----------------------------------------------------------------------------
(* Values *)

None == << >>
Some(x) == <<x>>

Num(n) == [t |-> "number", v |-> n]
Infinity == [t |-> "Infinity", v |-> 0]
NaN == [t |-> "NaN", v |-> 0]
Null == [t |-> "null", v |-> 0]
Text == [t |-> "string", v |-> 0]

\* typeof value === 'number'
TypeofNumber(x) == x.t \in {"number", "Infinity", "NaN"}

\* isFinite(value), for a value of type number
isFinite(x) == x.t = "number"

\* JSON.stringify followed by JSON.parse of one value: a non-finite number
\* is written as null
JsonValue(x) == IF x.t \in {"Infinity", "NaN"} THEN Null ELSE x

Abs(n) == IF n < 0 THEN -n ELSE n

RECURSIVE GCD(_, _)
GCD(a, b) == IF b = 0 THEN a ELSE GCD(b, a % b)

\* sums[key] / counts[key] with counts[key] > 0, as a fraction in lowest terms
Quotient(sum, count) ==
    LET g == GCD(Abs(sum), count)
    IN  [num |-> sum \div g, den |-> count \div g]

-----------------------------------------------------------------------------
(* The average computer *)

labAnalysisKeys ==
    <<"delta18O", "delta13C", "mgCaRatio", "tex86", "alkenoneSST",
      "calculatedSST", "baCa", "srCa", "cdCa", "radiocarbonDate">>

\* a guard that lets every value of type number through
ContributesAnyNumber(point, key) ==
    /\ key \in DOMAIN point
    /\ TypeofNumber(point[key])

\* the guard of the inner loop: typeof value === 'number' && isFinite(value)
Contributes(point, key) ==
    /\ key \in DOMAIN point
    /\ TypeofNumber(point[key])
    /\ isFinite(point[key])

\* sums[key] after the loop over the first n points
RECURSIVE SumsAfter(_, _, _)
SumsAfter(dataPoints, key, n) ==
    IF n = 0 THEN 0
    ELSE SumsAfter(dataPoints, key, n - 1)
         + (IF Contributes(dataPoints[n], key) THEN dataPoints[n][key].v ELSE 0)

\* counts[key] after the loop over the first n points
RECURSIVE CountsAfter(_, _, _)
CountsAfter(dataPoints, key, n) ==
    IF n = 0 THEN 0
    ELSE CountsAfter(dataPoints, key, n - 1)
         + (IF Contributes(dataPoints[n], key) THEN 1 ELSE 0)

calculateAveragesFromDataPoints(dataPoints) ==
    IF Len(dataPoints) = 0 THEN << >>
    ELSE LET n == Len(dataPoints)
             present == {i \in DOMAIN labAnalysisKeys :
                            CountsAfter(dataPoints, labAnalysisKeys[i], n) > 0}
         IN  [key \in {labAnalysisKeys[i] : i \in present} |->
                 Quotient(SumsAfter(dataPoints, key, n),
                          CountsAfter(dataPoints, key, n))]

-----------------------------------------------------------------------------
(* The remote gateway *)

\* a JavaScript object spread: { ...a, ...b }
Spread(a, b) ==
    [k \in (DOMAIN a) \cup (DOMAIN b) |-> IF k \in DOMAIN b THEN b[k] ELSE a[k]]

\* dp.subsection is truthy
HasSubsection(dp) == "subsection" \in DOMAIN dp /\ dp.subsection # ""

\* the template literal `Subsection ${index + 1}`, index counted from 0
DefaultSubsection(index) == "Subsection " \o ToString(index + 1)

\* value || [] of a column that may be null
OrEmpty(opt) == IF opt = None THEN << >> ELSE opt[1]

dbSectionToAppSection(dbSection) ==
    [id |-> dbSection.id,
     dataPoints |->
        LET points == OrEmpty(dbSection.data_points)
        IN  [i \in DOMAIN points |->
                Spread(points[i],
                       [k \in {"subsection"} |->
                           IF HasSubsection(points[i]) THEN points[i].subsection
                           ELSE DefaultSubsection(i - 1)])],
     microfossilRecords |->
        LET records == OrEmpty(dbSection.microfossil_records)
        IN  [i \in DOMAIN records |->
                [fossilId |-> records[i].fossil_id,
                 observations |-> records[i].observations]],
     labAnalysis |-> dbSection.lab_analysis]

appSectionToDbPayload(appSection) ==
    [data_points |-> Some(appSection.dataPoints),
     microfossil_records |->
        Some([i \in DOMAIN appSection.microfossilRecords |->
                [fossil_id |-> appSection.microfossilRecords[i].fossilId,
                 observations |-> appSection.microfossilRecords[i].observations]]),
     lab_analysis |-> appSection.labAnalysis]

\* the request body as the store receives it: JSON has no non-finite number
JsonPoint(dp) ==
    [k \in DOMAIN dp |-> IF k = "subsection" THEN dp[k] ELSE JsonValue(dp[k])]

JsonPayload(payload) ==
    [payload EXCEPT !.data_points =
        Some([i \in DOMAIN payload.data_points[1] |->
                 JsonPoint(payload.data_points[1][i])])]

\* the position of the row with this id in the table, 0 when there is none
RowIndex(table, id) ==
    IF \E i \in DOMAIN table : table[i].id = id
    THEN CHOOSE i \in DOMAIN table : table[i].id = id
    ELSE 0

-----------------------------------------------------------------------------
(* The data-point reconciler *)

\* a.depth || 0
DepthOrZero(dp) ==
    IF "depth" \in DOMAIN dp /\ dp.depth.t = "number" THEN dp.depth.v ELSE 0

\* one step of a stable sort: p goes after every point that does not compare
\* greater than it
RECURSIVE InsertByDepth(_, _)
InsertByDepth(sorted, p) ==
    IF sorted = << >> THEN <<p>>
    ELSE IF DepthOrZero(sorted[Len(sorted)]) - DepthOrZero(p) > 0
         THEN Append(InsertByDepth(SubSeq(sorted, 1, Len(sorted) - 1), p),
                     sorted[Len(sorted)])
         ELSE Append(sorted, p)

\* the points in the order they have
Unsorted(points) == points

\* points.sort((a, b) => (a.depth || 0) - (b.depth || 0))
RECURSIVE SortByDepth(_)
SortByDepth(points) ==
    IF points = << >> THEN << >>
    ELSE InsertByDepth(SortByDepth(SubSeq(points, 1, Len(points) - 1)),
                       points[Len(points)])

\* the string as it was typed
Untrimmed(s) == s

\* String.prototype.trim on the strings the form can hold
Trim(s) ==
    CASE s = " " -> ""
      [] s = " A" -> "A"
      [] OTHER -> s

\* parseFloat on the strings the form can hold: a decimal literal, a literal
\* followed by other text, a literal beyond the double range, anything else
parseFloat(s) ==
    IF \E n \in 0..9 : ToString(n) = s
    THEN Num(CHOOSE n \in 0..9 : ToString(n) = s)
    ELSE CASE s = "2cm" -> Num(2)
           [] s = "2.0" -> Num(2)
           [] s = "1e999" -> Infinity
           [] OTHER -> NaN

\* isNaN(numValue)
isNaN(x) == x.t = "NaN"

\* the loop of handleAddDataPoint over the form's keys
NewPointData(subsectionId, formState) ==
    LET kept == {key \in DOMAIN formState :
                    /\ key # "subsection"
                    /\ formState[key] # ""
                    /\ ~isNaN(parseFloat(formState[key]))}
    IN  [key \in kept \cup {"subsection"} |->
            IF key = "subsection" THEN subsectionId
            ELSE parseFloat(formState[key])]

\* section.dataPoints.findIndex(dp => dp.subsection === subsectionId), from 1;
\* 0 for the -1 of the code
FindIndex(dataPoints, subsectionId) ==
    LET hits == {i \in DOMAIN dataPoints : dataPoints[i].subsection = subsectionId}
    IN  IF hits = {} THEN 0
        ELSE CHOOSE i \in hits : \A j \in hits : i <= j

\* the data points of handleAddDataPoint before the sort
AddOrReplace(dataPoints, newPointData) ==
    LET existingPointIndex == FindIndex(dataPoints, newPointData.subsection)
    IN  IF existingPointIndex > 0
        THEN [dataPoints EXCEPT ![existingPointIndex] =
                 Spread(dataPoints[existingPointIndex], newPointData)]
        ELSE Append(dataPoints, newPointData)

\* new Map(section.dataPoints.map(p => [p.subsection, p])): the entries in
\* insertion order; a key met again keeps its place and takes the later value
MapSet(entries, key, value) ==
    IF \E i \in DOMAIN entries : entries[i].key = key
    THEN [i \in DOMAIN entries |->
             IF entries[i].key = key THEN [key |-> key, value |-> value]
             ELSE entries[i]]
    ELSE Append(entries, [key |-> key, value |-> value])

MapHas(entries, key) == \E i \in DOMAIN entries : entries[i].key = key

\* sectionPointsMap.get(key): the value, or the empty object for undefined
\* (spreading undefined adds no key)
MapGetOrEmpty(entries, key) ==
    IF MapHas(entries, key)
    THEN entries[CHOOSE i \in DOMAIN entries : entries[i].key = key].value
    ELSE << >>

RECURSIVE MapOfPoints(_, _)
MapOfPoints(dataPoints, n) ==
    IF n = 0 THEN << >>
    ELSE MapSet(MapOfPoints(dataPoints, n - 1),
                dataPoints[n].subsection, dataPoints[n])

\* subsectionId && typeof subsectionId === 'string' && subsectionId.trim() !== ''
IsKeyedRow(newPoint) ==
    /\ "subsection" \in DOMAIN newPoint
    /\ newPoint.subsection # ""
    /\ Trim(newPoint.subsection) # ""

\* the template literal `Imported-${Date.now()}-${index}`
ImportedId(clock, index) ==
    "Imported-" \o ToString(clock) \o "-" \o ToString(index)

\* the body of parsedDataFromCsv.forEach for the row at position n (index n - 1)
MergeRow(acc, newPoint, index, clock) ==
    IF IsKeyedRow(newPoint)
    THEN [map |-> MapSet(acc.map, newPoint.subsection,
                         Spread(MapGetOrEmpty(acc.map, newPoint.subsection), newPoint)),
          addedCount |-> acc.addedCount
                         + (IF MapHas(acc.map, newPoint.subsection) THEN 0 ELSE 1),
          updatedCount |-> acc.updatedCount
                         + (IF MapHas(acc.map, newPoint.subsection) THEN 1 ELSE 0)]
    ELSE LET uniqueId == ImportedId(clock, index)
         IN  [map |-> MapSet(acc.map, uniqueId,
                             Spread(newPoint, [k \in {"subsection"} |-> uniqueId])),
              addedCount |-> acc.addedCount + 1,
              updatedCount |-> acc.updatedCount]

\* the state of the merge after the first n rows of the batch
RECURSIVE MergeRows(_, _, _, _)
MergeRows(dataPoints, parsedDataFromCsv, n, clock) ==
    IF n = 0
    THEN [map |-> MapOfPoints(dataPoints, Len(dataPoints)),
          addedCount |-> 0, updatedCount |-> 0]
    ELSE MergeRow(MergeRows(dataPoints, parsedDataFromCsv, n - 1, clock),
                  parsedDataFromCsv[n], n - 1, clock)

\* Array.from(sectionPointsMap.values()).sort(...)
MergedPoints(merge) ==
    SortByDepth([i \in DOMAIN merge.map |-> merge.map[i].value])

-----------------------------------------------------------------------------
(* The inputs *)

SectionIds == {"s1", "s2"}

\* what the manual-entry form can hold when Add is pressed
FormStates ==
    {[subsection |-> " ",  depth |-> "1", delta18O |-> "4"],
     [subsection |-> "A",  depth |-> "",  delta18O |-> "x"],
     [subsection |-> " A", depth |-> "1", delta18O |-> "4"],
     [subsection |-> "A",  depth |-> "",  delta18O |-> "1e999"]}

\* the rows a confirmed mapping can yield from a file: none; rows without a
\* key or with a blank one; two rows for one key
Batches ==
    {<< >>,
     <<[subsection |-> " ", depth |-> Num(2), delta18O |-> Num(4)],
       [depth |-> Num(1)]>>,
     <<[subsection |-> "A", depth |-> Num(2)],
       [subsection |-> "A", delta18O |-> Num(2)]>>}

\* what the observations of a fossil record can be edited to
Observations == {"a", "b"}

\* the rows of the sections table when the dashboard opens: a row whose
\* series has a point without a key, and a row without a series
SeedRows ==
    <<[id |-> "s1",
       data_points |-> Some(<<[subsection |-> "Subsection 2", depth |-> Num(2),
                               delta18O |-> Num(4)],
                              [depth |-> Num(1)]>>),
       microfossil_records |-> Some(<<[fossil_id |-> "f1", observations |-> "a"]>>),
       lab_analysis |-> Some([k \in {"delta18O"} |-> Quotient(9, 1)])],
      [id |-> "s2",
       data_points |-> None,
       microfossil_records |-> None,
       lab_analysis |-> Some([k \in {"delta18O"} |-> Quotient(3, 1)])]>>

-----------------------------------------------------------------------------
(* The AI-dependent functions of the service *)

\* a client whatever the key
AlwaysClient(API_KEY) == Some("GoogleGenAI")

\* initializeGeminiClient: no client when the key is undefined or empty
initializeGeminiClient(API_KEY) ==
    IF API_KEY = None \/ API_KEY = Some("") THEN None ELSE Some("GoogleGenAI")

\* the AI-dependent functions
AiFunctions ==
    {"getAnalysisFromAIStream", "generateSectionSummary", "mapCsvHeaders",
     "identifyFossilFromImage", "generateAgeModel", "detectPaleoEvents"}

\* the values of import.meta.env.VITE_GEMINI_API_KEY
ApiKeys == {None, Some(""), Some("key")}

\* what the service does with a request: it answers with the text asked
\* for, it answers with text that is not JSON, or the request fails
Outcomes == {"text", "notJson", "error"}

\* the end of a call: a value returned or an error thrown, and the number of
\* requests made
Returned(value, requests) ==
    [kind |-> "returned", message |-> value, requests |-> requests]
Thrown(message, requests) ==
    [kind |-> "thrown", message |-> message, requests |-> requests]

\* the first statement of each function, taken when there is no client
NotConfigured(fn) ==
    CASE fn = "getAnalysisFromAIStream" ->
            Thrown("Error: API key is not configured. Please contact the administrator.", 0)
      [] fn = "generateSectionSummary" ->
            Returned("Error: API key is not configured.", 0)
      [] fn = "identifyFossilFromImage" ->
            Returned("Error: API key is not configured.", 0)
      [] OTHER -> Thrown("API key is not configured.", 0)

\* the rest of each function: one request, and what the function makes of
\* its outcome
Requested(fn, outcome) ==
    CASE fn = "getAnalysisFromAIStream" ->
            IF outcome = "error" THEN Thrown("Failed to fetch", 1)
            ELSE Returned("<stream>", 1)
      [] fn = "generateSectionSummary" ->
            IF outcome = "error" THEN Returned("AI Summary Error: Failed to fetch", 1)
            ELSE Returned("<summary>", 1)
      [] fn = "mapCsvHeaders" ->
            IF outcome = "text" THEN Returned("<mapping>", 1)
            ELSE Returned("<every header mapped to null>", 1)
      [] fn = "identifyFossilFromImage" ->
            IF outcome = "error" THEN Returned("AI Analysis Error: Failed to fetch", 1)
            ELSE Returned("<analysis>", 1)
      [] fn = "generateAgeModel" ->
            IF outcome = "text" THEN Returned("<sections>", 1)
            ELSE IF outcome = "notJson"
            THEN Thrown("AI Age Model Error: Unexpected token", 1)
            ELSE Thrown("AI Age Model Error: Failed to fetch", 1)
      [] OTHER ->
            IF outcome = "text" THEN Returned("<events>", 1)
            ELSE IF outcome = "notJson"
            THEN Thrown("AI Event Detection Error: Unexpected token", 1)
            ELSE Thrown("AI Event Detection Error: Failed to fetch", 1)

\* a call of an AI-dependent function of a module whose client is ai
AiFunction(client, fn, outcome) ==
    IF client = None THEN NotConfigured(fn) ELSE Requested(fn, outcome)

\* a call of an AI-dependent function of a module loaded with the key
AiCall(fn, API_KEY, outcome) ==
    AiFunction(initializeGeminiClient(API_KEY), fn, outcome)

-----------------------------------------------------------------------------
(* The dashboard *)

\* the epoch column of the rows, which no operation of the model writes
EpochOf == [s1 |-> "Holocene", s2 |-> "Pleistocene"]

\* filteredSections
filteredSections(secs, filter) ==
    IF filter = "all" THEN secs
    ELSE SelectSeq(secs, LAMBDA s : EpochOf[s.id] = filter)

\* an effect that fills an empty selection and keeps any other
FillSelection(secs, sel) ==
    IF sel = None /\ Len(secs) > 0 THEN Some(secs[1]) ELSE sel

\* the effect on [filteredSections, selectedSection], secs being the filtered
\* sections: a selection that is not listed, or no selection, falls to the
\* first
SelectionEffect(secs, sel) ==
    IF sel # None /\ ~(\E i \in DOMAIN secs : secs[i].id = sel[1].id)
    THEN (IF secs = << >> THEN None ELSE Some(secs[1]))
    ELSE IF sel = None /\ Len(secs) > 0 THEN Some(secs[1])
    ELSE sel

\* setSections and setSelectedSection, then the selection effect
Commit(secs, sel) ==
    /\ sections' = secs
    /\ selectedSection' = SelectionEffect(filteredSections(secs, epochFilter), sel)

RemoveAt(seq, i) == SubSeq(seq, 1, i - 1) \o SubSeq(seq, i + 1, Len(seq))

\* a value of the status line; null is the line of type "none"
StatusLine(type, msg) == [type |-> type, msg |-> msg]

NoStatus == StatusLine("none", "")

\* the message of a finished import
ImportedMsg(addedCount, updatedCount) ==
    ToString(addedCount) \o " new subsections added, "
        \o ToString(updatedCount) \o " updated."

\* the data-entry, fossil and section controls are rendered
TabsRendered == ~loadingSections /\ selectedSection # None

FetchCall(closureSelected) ==
    [kind |-> "fetch", origin |-> "dashboard", section |-> None,
     closureSelected |-> closureSelected, phase |-> "sent", result |-> << >>]

\* the call of coreService.updateSection by handleUpdateSectionData, whose
\* closure holds the id of the selection of the render it was created in
UpdateCall(updatedSection, origin, closureSelected) ==
    [kind |-> "update", origin |-> origin, section |-> Some(updatedSection),
     closureSelected |-> closureSelected, phase |-> "sent", result |-> << >>]

\* handleUpdateSectionData up to its await
handleUpdateSectionData(updatedSection, origin) ==
    /\ calls' = Append(calls,
          UpdateCall(updatedSection, origin,
                     IF selectedSection = None THEN None
                     ELSE Some(selectedSection[1].id)))
    /\ nOps' = nOps + 1

\* the section select's onChange
SelectSection(id) ==
    /\ ~loadingSections
    /\ \E i \in DOMAIN sections :
          /\ sections[i].id = id
          /\ \E j \in DOMAIN filteredSections(sections, epochFilter) :
                filteredSections(sections, epochFilter)[j].id = id
          /\ selectedSection # Some(sections[i])
          /\ Commit(sections, Some(sections[i]))
    /\ UNCHANGED <<store, loadingSections, calls, status, importJob, now,
                   nOps, fnArgs, sessVars, epochFilter, dimVars, fnResult, synthVars,
                   appVars>>

\* the series handleAddDataPoint hands to onUpdateSection
NewDataPoints(section, newPointData) ==
    SortByDepth(AddOrReplace(section.dataPoints, newPointData))

handleAddDataPoint(formState) ==
    /\ TabsRendered
    /\ nOps < MaxOps
    /\ LET section == selectedSection[1]
           subsectionId == Trim(formState.subsection)
           newPointData == NewPointData(subsectionId, formState)
           hasValue == DOMAIN newPointData # {"subsection"}
           newDataPoints == NewDataPoints(section, newPointData)
           newLabAnalysis == calculateAveragesFromDataPoints(newDataPoints)
       IN  IF subsectionId = ""
           THEN /\ status' = StatusLine("error", "Subsection ID is a required field.")
                /\ nOps' = nOps + 1
                /\ UNCHANGED <<calls, acceptedEntries>>
           ELSE IF ~hasValue
           THEN /\ status' = StatusLine("error",
                      "At least one data value (e.g., depth) must be provided.")
                /\ nOps' = nOps + 1
                /\ UNCHANGED <<calls, acceptedEntries>>
           ELSE /\ status' = StatusLine("success",
                      "Subsection \"" \o subsectionId \o
                      (IF FindIndex(section.dataPoints, subsectionId) > 0
                       THEN "\" updated." ELSE "\" added."))
                /\ acceptedEntries' =
                      acceptedEntries \cup {<<section.id, subsectionId>>}
                /\ handleUpdateSectionData(
                      [section EXCEPT !.dataPoints = newDataPoints,
                                      !.labAnalysis = Some(newLabAnalysis)],
                      "manual")
    /\ UNCHANGED <<store, sections, selectedSection, loadingSections, importJob,
                   now, fnArgs, sessVars, epochFilter, fnResult, synthVars, appVars, isProcessing,
                   isMappingHeaders, headerJob, headerMap, ai>>

\* setStatus of a DataInputManager that the loader may have unmounted
SetStatus(line) == status' = IF loadingSections THEN status ELSE line

\* the flag left as it is
KeepProcessing == isProcessing' = isProcessing

\* setIsProcessing(false) of the same
EndProcessing == isProcessing' = FALSE

\* no header is mapped
EmptyMapping(headers, n) == << >>

\* headers.reduce((acc, header) => ({...acc, [header]: null}), {}) over the
\* first n headers
RECURSIVE NullMapping(_, _)
NullMapping(headers, n) ==
    IF n = 0 THEN << >>
    ELSE Spread(NullMapping(headers, n - 1), [k \in {headers[n]} |-> None])

\* the mappings the service can answer with for a header line
AiMappings ==
    {[k \in {"Sample", "Depth"} |->
         IF k = "Sample" THEN Some("subsection") ELSE Some("depth")]}

\* mapCsvHeaders: the mapping of the response, or the null mapping when the
\* request fails or its text is not JSON; without a client it throws
mapCsvHeaders(client, headers, outcome, mapping) ==
    LET call == AiFunction(client, "mapCsvHeaders", outcome)
    IN  IF call.kind = "thrown" THEN call
        ELSE Returned(IF outcome = "text" THEN mapping
                      ELSE NullMapping(headers, Len(headers)),
                      call.requests)

\* the file formats of the two file inputs
Formats == {"csv", "odv"}

\* what Papa.parse can read as the header line of a file
HeaderLines == {<< >>, <<"Sample", "Depth">>}

\* handleFileChange with a file, and triggerHeaderMapping up to Papa.parse:
\* the parse of the header line is begun; one file is handled at a time
handleFileChange(format) ==
    /\ TabsRendered
    /\ headerJob = None /\ importJob = None /\ ~isMappingHeaders
    /\ nOps < MaxOps
    /\ nOps' = nOps + 1
    /\ isProcessing' = TRUE
    /\ status' = StatusLine("info",
          "Analyzing " \o (IF format = "csv" THEN "CSV" ELSE "ODV")
              \o " headers with AI...")
    /\ headerJob' = Some([format |-> format, phase |-> "parse", headers |-> << >>])
    /\ UNCHANGED <<store, sections, selectedSection, loadingSections, calls,
                   importJob, now, fnArgs, sessVars, epochFilter, fnResult, synthVars, appVars,
                   isMappingHeaders, headerMap, acceptedEntries, ai>>

\* the complete callback of Papa.parse in triggerHeaderMapping up to its
\* await: without headers it ends with an error, with headers it calls
\* mapCsvHeaders
HeaderParseComplete(headers) ==
    /\ headerJob # None /\ headerJob[1].phase = "parse"
    /\ IF Len(headers) = 0
       THEN /\ SetStatus(StatusLine("error",
                  "Could not read headers from "
                     \o (IF headerJob[1].format = "csv" THEN "CSV" ELSE "ODV")
                     \o "."))
            /\ EndProcessing
            /\ headerJob' = None
       ELSE /\ headerJob' = Some([headerJob[1] EXCEPT !.phase = "map",
                                                      !.headers = headers])
            /\ UNCHANGED <<status, isProcessing>>
    /\ UNCHANGED <<store, sections, selectedSection, loadingSections, calls,
                   importJob, now, nOps, fnArgs, sessVars, epochFilter, fnResult, synthVars, appVars,
                   isMappingHeaders, headerMap, acceptedEntries, ai>>

\* the same callback after its await: with the mapping returned the modal is
\* opened on it; mapCsvHeaders throwing ends the callback where it is
MapHeadersSettle(outcome, mapping) ==
    /\ headerJob # None /\ headerJob[1].phase = "map"
    /\ LET aiMap == mapCsvHeaders(ai, headerJob[1].headers, outcome, mapping)
       IN  IF aiMap.kind = "returned"
           THEN /\ headerMap' = aiMap.message
                /\ isMappingHeaders' = TRUE
                /\ isProcessing' = FALSE
                /\ SetStatus(NoStatus)
           ELSE UNCHANGED <<headerMap, isMappingHeaders, isProcessing, status>>
    /\ headerJob' = None
    /\ UNCHANGED <<store, sections, selectedSection, loadingSections, calls,
                   importJob, now, nOps, fnArgs, sessVars, epochFilter, fnResult, synthVars, appVars,
                   acceptedEntries, ai>>

\* handleCancelMapping, of the modal's Cancel
handleCancelMapping ==
    /\ TabsRendered
    /\ isMappingHeaders
    /\ isMappingHeaders' = FALSE
    /\ isProcessing' = FALSE
    /\ status' = NoStatus
    /\ UNCHANGED <<store, sections, selectedSection, loadingSections, calls,
                   importJob, now, nOps, fnArgs, sessVars, epochFilter, fnResult, synthVars, appVars,
                   headerJob, headerMap, acceptedEntries, ai>>

\* handleConfirmMapping, of the modal's Confirm, up to Papa.parse: the parse
\* of the file is begun and its complete callback keeps the section of this
\* render; one file is parsed at a time, and the file of the open modal is
\* the one selected; the import is the operation its file selection began
handleConfirmMapping ==
    /\ TabsRendered
    /\ isMappingHeaders
    /\ importJob = None
    /\ isMappingHeaders' = FALSE
    /\ isProcessing' = TRUE
    /\ importJob' = Some(selectedSection[1])
    /\ status' = StatusLine("info", "Processing file with new mapping...")
    /\ UNCHANGED <<store, sections, selectedSection, loadingSections, calls, now,
                   nOps, fnArgs, sessVars, epochFilter, fnResult, synthVars, appVars, headerJob, headerMap, acceptedEntries, ai>>

\* the messages of the errors Papa.parse can report
ParseErrors == {"Too few fields"}

\* the complete callback of Papa.parse in handleConfirmMapping when the
\* results hold errors, and its error callback when the file cannot be read
ParseFails(message, inCallback) ==
    /\ importJob # None
    /\ SetStatus(StatusLine("error",
          (IF inCallback = "complete" THEN "Parsing Error: "
           ELSE "File Read Error: ") \o message))
    /\ EndProcessing
    /\ importJob' = None
    /\ UNCHANGED <<store, sections, selectedSection, loadingSections, calls,
                   now, nOps, fnArgs, sessVars, epochFilter, fnResult, synthVars, appVars,
                   isMappingHeaders, headerJob, headerMap, acceptedEntries, ai>>

\* no batch is empty
NeverNoRows(parsedDataFromCsv) == FALSE

\* parsedDataFromCsv.length === 0
NoRows(parsedDataFromCsv) == Len(parsedDataFromCsv) = 0

\* the complete callback of Papa.parse in handleConfirmMapping, given the rows
\* the mapping yields; Date.now() is read when a row has no key, and reads
\* what it read before or the next reading
ParseComplete(parsedDataFromCsv) ==
    /\ importJob # None
    /\ LET section == importJob[1]
           readsClock == \E n \in DOMAIN parsedDataFromCsv :
                            ~IsKeyedRow(parsedDataFromCsv[n])
       IN  \E clock \in (IF readsClock /\ now < MaxClock THEN {now, now + 1}
                        ELSE {now}) :
             LET merge == MergeRows(section.dataPoints, parsedDataFromCsv,
                                    Len(parsedDataFromCsv), clock)
                 mergedPoints == MergedPoints(merge)
                 newLabAnalysis == calculateAveragesFromDataPoints(mergedPoints)
             IN  /\ now' = clock
                 /\ IF NoRows(parsedDataFromCsv)
                    THEN /\ SetStatus(StatusLine("error",
                               "No valid data points could be parsed from the file."))
                         /\ UNCHANGED calls
                    ELSE /\ SetStatus(StatusLine("success",
                               ImportedMsg(merge.addedCount, merge.updatedCount)))
                         /\ calls' = Append(calls,
                               UpdateCall([section EXCEPT
                                              !.dataPoints = mergedPoints,
                                              !.labAnalysis = Some(newLabAnalysis)],
                                          "import", Some(section.id)))
    /\ EndProcessing
    /\ importJob' = None
    /\ UNCHANGED <<store, sections, selectedSection, loadingSections, nOps,
                   fnArgs, sessVars, epochFilter, fnResult, synthVars, appVars, isMappingHeaders,
                   headerJob, headerMap, acceptedEntries, ai>>

\* FossilRecordsTab.handleRecordChange, on a change of a record's observations
handleRecordChange(updatedRecord) ==
    /\ TabsRendered
    /\ nOps < MaxOps
    /\ LET section == selectedSection[1]
       IN  /\ \E i \in DOMAIN section.microfossilRecords :
                 /\ section.microfossilRecords[i].fossilId = updatedRecord.fossilId
                 /\ section.microfossilRecords[i] # updatedRecord
           /\ handleUpdateSectionData(
                 [section EXCEPT !.microfossilRecords =
                     [i \in DOMAIN section.microfossilRecords |->
                         IF section.microfossilRecords[i].fossilId = updatedRecord.fossilId
                         THEN updatedRecord
                         ELSE section.microfossilRecords[i]]],
                 "fossil")
    /\ UNCHANGED <<store, sections, selectedSection, loadingSections, status,
                   importJob, now, fnArgs, sessVars, epochFilter, dimVars, fnResult, synthVars,
                   appVars>>

\* setTimeout(() => setStatus(null), ...): a timer set with a status line fires
StatusTimeout ==
    /\ status.type \in {"error", "success"}
    /\ status' = NoStatus
    /\ UNCHANGED <<store, sections, selectedSection, loadingSections, calls,
                   importJob, now, nOps, fnArgs, sessVars, epochFilter, dimVars, fnResult, synthVars,
                   appVars>>

\* handleDeleteSection up to its first await: coreService.deleteSection is called
handleDeleteSection ==
    /\ TabsRendered
    /\ nOps < MaxOps
    /\ calls' = Append(calls,
          [kind |-> "delete", origin |-> "dashboard", section |-> selectedSection,
           closureSelected |-> Some(selectedSection[1].id),
           phase |-> "sent", result |-> << >>])
    /\ nOps' = nOps + 1
    /\ UNCHANGED <<store, sections, selectedSection, loadingSections, status,
                   importJob, now, fnArgs, sessVars, epochFilter, dimVars, fnResult, synthVars,
                   appVars>>

-----------------------------------------------------------------------------
(* The remote store and the continuations of the awaited calls *)

\* the store serves coreService.updateSection: the row with the section's id
\* takes the payload and is returned
StoreUpdate(i) ==
    /\ calls[i].kind = "update" /\ calls[i].phase = "sent"
    /\ LET idx == RowIndex(store, calls[i].section[1].id)
           row == Spread(store[idx],
                         JsonPayload(appSectionToDbPayload(calls[i].section[1])))
       IN  /\ idx > 0
           /\ store' = [store EXCEPT ![idx] = row]
           /\ calls' = [calls EXCEPT ![i].phase = "ok", ![i].result = <<row>>]
    /\ UNCHANGED <<sections, selectedSection, loadingSections, status, importJob,
                   now, nOps, fnArgs, sessVars, epochFilter, dimVars, fnResult, synthVars,
                   appVars>>

\* a replacement of the data points of the section alone
ReplaceDataPoints(secs, newSection) ==
    [j \in DOMAIN secs |->
        IF secs[j].id = newSection.id
        THEN [secs[j] EXCEPT !.dataPoints = newSection.dataPoints]
        ELSE secs[j]]

\* setSections(prev => prev.map(s => s.id === newSection.id ? newSection : s))
ReplaceSection(secs, newSection) ==
    [j \in DOMAIN secs |-> IF secs[j].id = newSection.id THEN newSection ELSE secs[j]]

\* handleUpdateSectionData after its await, on success
UpdateResolve(i) ==
    /\ calls[i].kind = "update" /\ calls[i].phase = "ok"
    /\ LET newSection == dbSectionToAppSection(calls[i].result[1])
       IN  Commit(ReplaceSection(sections, newSection),
                  IF calls[i].closureSelected = Some(newSection.id)
                  THEN Some(newSection) ELSE selectedSection)
    /\ calls' = RemoveAt(calls, i)
    /\ UNCHANGED <<store, loadingSections, status, importJob, now, nOps,
                   fnArgs, sessVars, epochFilter, dimVars, fnResult, synthVars,
                   appVars>>

\* what the catch of handleUpdateSectionData leaves of the dashboard's state
UpdateCatch ==
    UNCHANGED <<sections, selectedSection>>

\* coreService.updateSection throws (an error of the store, or no row with the
\* id) and the catch of handleUpdateSectionData shows a toast
UpdateReject(i) ==
    /\ calls[i].kind = "update" /\ calls[i].phase = "sent"
    /\ UpdateCatch
    /\ calls' = RemoveAt(calls, i)
    /\ UNCHANGED <<store, loadingSections, status, importJob, now, nOps,
                   fnArgs, sessVars, epochFilter, dimVars, fnResult, synthVars,
                   appVars>>

\* the store serves coreService.fetchSectionsForCore
StoreSelect(i) ==
    /\ calls[i].kind = "fetch" /\ calls[i].phase = "sent"
    /\ calls' = [calls EXCEPT ![i].phase = "ok", ![i].result = store]
    /\ UNCHANGED <<store, sections, selectedSection, loadingSections, status,
                   importJob, now, nOps, fnArgs, sessVars, epochFilter, dimVars, fnResult, synthVars,
                   appVars>>

\* the map of fetchSections over the fetched sections
WithAverages(section) ==
    IF Len(section.dataPoints) > 0
    THEN [section EXCEPT !.labAnalysis =
             Some(calculateAveragesFromDataPoints(section.dataPoints))]
    ELSE section

\* sectionsWithAverages.find(s => s.id === id), as a list of at most one
FindSection(secs, id) ==
    IF \E i \in DOMAIN secs : secs[i].id = id
    THEN Some(secs[CHOOSE i \in DOMAIN secs :
                      /\ secs[i].id = id
                      /\ \A j \in DOMAIN secs : secs[j].id = id => i <= j])
    ELSE None

\* fetchSections after its await, on success
FetchResolve(i) ==
    /\ calls[i].kind = "fetch" /\ calls[i].phase = "ok"
    /\ LET rows == calls[i].result
           sectionsWithAverages ==
               [j \in DOMAIN rows |-> WithAverages(dbSectionToAppSection(rows[j]))]
           sectionToSelect ==
               IF calls[i].closureSelected # None
               THEN FindSection(sectionsWithAverages, calls[i].closureSelected[1])
               ELSE None
       IN  Commit(sectionsWithAverages,
                  IF sectionToSelect # None THEN sectionToSelect
                  ELSE IF Len(sectionsWithAverages) > 0
                       THEN Some(sectionsWithAverages[1])
                       ELSE None)
    /\ loadingSections' = FALSE
    /\ calls' = RemoveAt(calls, i)
    /\ UNCHANGED <<store, status, importJob, now, nOps, fnArgs, sessVars, epochFilter, dimVars, fnResult, synthVars,
                   appVars>>

\* coreService.fetchSectionsForCore throws: the catch of fetchSections shows a
\* toast and its finally ends the loading
FetchReject(i) ==
    /\ calls[i].kind = "fetch" /\ calls[i].phase = "sent"
    /\ loadingSections' = FALSE
    /\ calls' = RemoveAt(calls, i)
    /\ UNCHANGED <<store, sections, selectedSection, status, importJob, now,
                   nOps, fnArgs, sessVars, epochFilter, dimVars, fnResult, synthVars,
                   appVars>>

\* the store serves coreService.deleteSection
StoreDelete(i) ==
    /\ calls[i].kind = "delete" /\ calls[i].phase = "sent"
    /\ LET idx == RowIndex(store, calls[i].section[1].id)
       IN  store' = IF idx > 0 THEN RemoveAt(store, idx) ELSE store
    /\ calls' = [calls EXCEPT ![i].phase = "ok"]
    /\ UNCHANGED <<sections, selectedSection, loadingSections, status, importJob,
                   now, nOps, fnArgs, sessVars, epochFilter, dimVars, fnResult, synthVars,
                   appVars>>

\* handleDeleteSection after its first await: fetchSections is begun with the
\* selection this handler was created with, the calibrated sections are
\* dropped, and the loader takes the place of the tabs, whose
\* DataInputManager is unmounted with its status line
DeleteResolve(i) ==
    /\ calls[i].kind = "delete" /\ calls[i].phase = "ok"
    /\ loadingSections' = TRUE
    /\ status' = NoStatus
    /\ isProcessing' = FALSE
    /\ isMappingHeaders' = FALSE
    /\ headerJob' = None
    /\ headerMap' = << >>
    /\ calls' = Append(RemoveAt(calls, i), FetchCall(calls[i].closureSelected))
    /\ calibratedSections' = None
    /\ UNCHANGED <<store, sections, selectedSection, importJob, now,
                   nOps, fnArgs, sessVars, epochFilter, fnResult, tiePoints, isLoading, error,
                   spliceIntervals, toast, appVars, acceptedEntries, ai>>

\* coreService.deleteSection throws and the catch of handleDeleteSection shows
\* a toast
DeleteReject(i) ==
    /\ calls[i].kind = "delete" /\ calls[i].phase = "sent"
    /\ calls' = RemoveAt(calls, i)
    /\ UNCHANGED <<store, sections, selectedSection, loadingSections, status,
                   importJob, now, nOps, fnArgs, sessVars, epochFilter, dimVars, fnResult, synthVars,
                   appVars>>

-----------------------------------------------------------------------------
(* The dashboard once mounted: the mount effect has called fetchSections *)

\* the synthesis view is not mounted: the dashboard shows another tab
SynthIdle ==
    /\ calibratedSections = None
    /\ tiePoints = << >>
    /\ isLoading = FALSE
    /\ error = None
    /\ spliceIntervals = << >>
    /\ toast = None

\* the user of the session
SessionUser == "u1"

\* App holds the session of the user; no microfossil is on record
SignedIn ==
    /\ session = Some(SessionUser)
    /\ microfossils = << >>

\* the part of App that the dashboard and the synthesis view do not read
AppIdle ==
    /\ cores = << >>
    /\ folders = << >>
    /\ selectedCore = None
    /\ editingCore = None
    /\ isCoreModalOpen = FALSE
    /\ confirmModalState = [isOpen |-> FALSE, onConfirm |-> None]
    /\ coresTable = << >>
    /\ foldersTable = << >>
    /\ SignedIn

\* no file is selected in the data-entry tab
DimIdle ==
    /\ isProcessing = FALSE
    /\ isMappingHeaders = FALSE
    /\ headerJob = None
    /\ headerMap = << >>
    /\ acceptedEntries = {}

Init ==
    /\ epochFilter = "all"
    /\ DimIdle
    /\ ai \in {initializeGeminiClient(API_KEY) : API_KEY \in ApiKeys}
    /\ store = SeedRows
    /\ sections = << >>
    /\ selectedSection = None
    /\ loadingSections = TRUE
    /\ calls = <<FetchCall(None)>>
    /\ status = NoStatus
    /\ importJob = None
    /\ now = 0
    /\ nOps = 1
    /\ fnArgs = None
    /\ fnResult = None
    /\ SynthIdle
    /\ AppIdle

Next ==
    \/ \E id \in SectionIds : SelectSection(id)
    \/ \E formState \in FormStates : handleAddDataPoint(formState)
    \/ \E format \in Formats : handleFileChange(format)
    \/ \E headers \in HeaderLines : HeaderParseComplete(headers)
    \/ \E outcome \in Outcomes, mapping \in AiMappings :
          MapHeadersSettle(outcome, mapping)
    \/ handleCancelMapping
    \/ handleConfirmMapping
    \/ \E parsedDataFromCsv \in Batches : ParseComplete(parsedDataFromCsv)
    \/ \E message \in ParseErrors, inCallback \in {"complete", "error"} :
          ParseFails(message, inCallback)
    \/ \E o \in Observations :
          handleRecordChange([fossilId |-> "f1", observations |-> o])
    \/ StatusTimeout
    \/ handleDeleteSection
    \/ \E i \in DOMAIN calls : StoreUpdate(i)
    \/ \E i \in DOMAIN calls : UpdateResolve(i)
    \/ \E i \in DOMAIN calls : UpdateReject(i)
    \/ \E i \in DOMAIN calls : StoreSelect(i)
    \/ \E i \in DOMAIN calls : FetchResolve(i)
    \/ \E i \in DOMAIN calls : FetchReject(i)
    \/ \E i \in DOMAIN calls : StoreDelete(i)
    \/ \E i \in DOMAIN calls : DeleteResolve(i)
    \/ \E i \in DOMAIN calls : DeleteReject(i)

Spec == Init /\ [][Next]_vars

-----------------------------------------------------------------------------
(* calculateAveragesFromDataPoints called on its own *)

\* the rest of the program does not take part in a call of a pure function
Idle ==
    /\ epochFilter = "all"
    /\ DimIdle
    /\ SynthIdle
    /\ AppIdle
    /\ store = << >>
    /\ sections = << >>
    /\ selectedSection = None
    /\ loadingSections = FALSE
    /\ calls = << >>
    /\ status = NoStatus
    /\ importJob = None
    /\ now = 0
    /\ nOps = 0

\* the objects that hold, under some of the keys of values, one of the key's
\* values
Objects(values) ==
    UNION {{p \in [keys -> UNION {values[k] : k \in keys}] :
                \A k \in keys : p[k] \in values[k]} :
           keys \in SUBSET DOMAIN values}

\* the points of the series an average is asked of
AvgPoints ==
    Objects([delta18O |-> {Num(1), Num(-3), Infinity, NaN, Text},
             radiocarbonDate |-> {Num(2), Null},
             depth |-> {Num(5)}])

SeqsUpTo(S, n) == UNION {[1..m -> S] : m \in 0..n}

InitAverages ==
    /\ Idle
    /\ ai = None
    /\ fnArgs \in {Some(dataPoints) : dataPoints \in SeqsUpTo(AvgPoints, MaxAvgPoints)}
    /\ fnResult = None

ReturnAverages ==
    /\ fnArgs # None /\ fnResult = None
    /\ fnResult' = Some(calculateAveragesFromDataPoints(fnArgs[1]))
    /\ UNCHANGED <<store, sections, selectedSection, loadingSections, calls, status,
                   importJob, now, nOps, fnArgs, sessVars, epochFilter, dimVars, synthVars, appVars>>

NextAverages == ReturnAverages

SpecAverages == InitAverages /\ [][NextAverages]_vars

-----------------------------------------------------------------------------
(* Properties of the average computer *)

ProxyKeys ==
    {"delta18O", "delta13C", "mgCaRatio", "tex86", "alkenoneSST",
     "calculatedSST", "baCa", "srCa", "cdCa", "radiocarbonDate"}

\* the points of a series that hold a finite number under a key
Contributors(dataPoints, key) ==
    {i \in DOMAIN dataPoints :
        key \in DOMAIN dataPoints[i] /\ dataPoints[i][key].t = "number"}

RECURSIVE SumOver(_, _, _)
SumOver(dataPoints, key, S) ==
    IF S = {} THEN 0
    ELSE LET i == CHOOSE i \in S : TRUE
         IN  dataPoints[i][key].v + SumOver(dataPoints, key, S \ {i})

\* result is, key by key, the mean of the finite numbers of dataPoints
IsMeanOf(result, dataPoints) ==
    /\ DOMAIN result \subseteq ProxyKeys
    /\ \A key \in ProxyKeys :
          key \in DOMAIN result <=> Contributors(dataPoints, key) # {}
    /\ \A key \in DOMAIN result :
          /\ result[key].den > 0
          /\ result[key].num * Cardinality(Contributors(dataPoints, key))
               = SumOver(dataPoints, key, Contributors(dataPoints, key))
                 * result[key].den

\* C1: for every data-point sequence calculateAveragesFromDataPoints returns,
\* for each of the ten proxy keys, the sum of the key's finite numeric values
\* divided by the number of points that contribute one; a key is in the result
\* exactly when a point contributes; values that are not finite numbers are
\* ignored; the empty sequence yields the empty mapping.
AveragesAreMeans ==
    fnResult # None =>
        /\ IsMeanOf(fnResult[1], fnArgs[1])
        /\ Len(fnArgs[1]) = 0 => fnResult[1] = << >>

\* a series of two points, one holding a finite number and one holding
\* Infinity under a key, has been averaged, and the key is in the result
AveragesWitness ==
    /\ fnResult # None
    /\ Len(fnArgs[1]) = 2
    /\ "delta18O" \in DOMAIN fnArgs[1][1] /\ fnArgs[1][1].delta18O = Num(-3)
    /\ "delta18O" \in DOMAIN fnArgs[1][2] /\ fnArgs[1][2].delta18O = Infinity
    /\ "delta18O" \in DOMAIN fnResult[1]
    /\ fnResult[1].delta18O = [num |-> -3, den |-> 1]

-----------------------------------------------------------------------------
(* generateAgeModel from the response of the service on *)

\* an age is a whole number of units of 10^-5; a depth is a whole number

\* a returned age as it was returned
AgeAsReturned(calculatedAge) == calculatedAge

\* parseFloat(Number(calculatedAge).toFixed(4)) of an age that is not negative
\* and not half-way between two multiples of 10^-4
ToFixed4(calculatedAge) == ((calculatedAge + 5) \div 10) * 10

\* dp.age !== undefined && dp.age !== null, of a returned point; the schema of
\* the response requires its depth
HasAge(dp) == dp.age # None

\* some returned section has a data point
HasAnyPoint(calibratedSectionsFromAI) ==
    \E k \in DOMAIN calibratedSectionsFromAI :
        Len(calibratedSectionsFromAI[k].dataPoints) > 0

\* calibratedSectionsFromAI.some(cs => cs.dataPoints.some(dp => has an age))
hasAnyAgeData(calibratedSectionsFromAI) ==
    \E k \in DOMAIN calibratedSectionsFromAI :
        \E n \in DOMAIN calibratedSectionsFromAI[k].dataPoints :
            HasAge(calibratedSectionsFromAI[k].dataPoints[n])

\* the position of calibratedSectionsFromAI.find(cs => cs.id === id), 0 when
\* it finds none
FindCalibrated(calibratedSectionsFromAI, id) ==
    LET hits == {k \in DOMAIN calibratedSectionsFromAI :
                    calibratedSectionsFromAI[k].id = id}
    IN  IF hits = {} THEN 0 ELSE CHOOSE k \in hits : \A j \in hits : k <= j

\* new Map(dataPoints.filter(...).map(dp => [dp.depth, dp.age])) after the
\* first n returned points
RECURSIVE AgeMapOf(_, _)
AgeMapOf(dataPoints, n) ==
    IF n = 0 THEN << >>
    ELSE IF HasAge(dataPoints[n])
         THEN MapSet(AgeMapOf(dataPoints, n - 1), dataPoints[n].depth,
                     dataPoints[n].age[1])
         ELSE AgeMapOf(dataPoints, n - 1)

\* a point of its depth and its age alone
BarePoint(dp, ageMap) ==
    IF "depth" \notin DOMAIN dp THEN dp
    ELSE IF dp.depth.t = "number" /\ MapHas(ageMap, dp.depth.v)
         THEN [depth |-> dp.depth,
               age |-> Num(ToFixed4(MapGetOrEmpty(ageMap, dp.depth.v)))]
         ELSE dp

\* the map of generateAgeModel over the points of a section; a point whose
\* depth is not in the map is copied with the age it has
UpdatedPoint(dp, ageMap) ==
    IF "depth" \notin DOMAIN dp THEN dp
    ELSE IF dp.depth.t = "number" /\ MapHas(ageMap, dp.depth.v)
         THEN Spread(dp, [k \in {"age"} |->
                             Num(ToFixed4(MapGetOrEmpty(ageMap, dp.depth.v)))])
         ELSE dp

\* the map of generateAgeModel over the sections
FinalSection(originalSection, calibratedSectionsFromAI) ==
    LET k == FindCalibrated(calibratedSectionsFromAI, originalSection.id)
        ageMap == AgeMapOf(calibratedSectionsFromAI[k].dataPoints,
                           Len(calibratedSectionsFromAI[k].dataPoints))
    IN  IF k = 0 THEN originalSection
        ELSE IF ageMap = << >> THEN originalSection
        ELSE [originalSection EXCEPT !.dataPoints =
                 [i \in DOMAIN originalSection.dataPoints |->
                     UpdatedPoint(originalSection.dataPoints[i], ageMap)]]

\* generateAgeModel once the response is parsed: it throws, or returns
\* finalSections
generateAgeModel(localSections, calibratedSectionsFromAI) ==
    IF Len(calibratedSectionsFromAI) = 0 \/ ~hasAnyAgeData(calibratedSectionsFromAI)
    THEN [thrown |-> TRUE, finalSections |-> << >>]
    ELSE [thrown |-> FALSE,
          finalSections |->
             [s \in DOMAIN localSections |->
                 FinalSection(localSections[s], calibratedSectionsFromAI)]]

\* bounds of the calls of generateAgeModel
MaxLocalPoints == 2
MaxReturned == 2

\* the local points of the section under calibration
LocalPoints ==
    {Spread(p, [k \in {"subsection"} |-> "A"]) :
        p \in {q \in Objects([depth |-> {Num(10), Num(30)}, age |-> {Num(70000)}]) :
                  ("depth" \in DOMAIN q /\ q.depth = Num(30)) => "age" \in DOMAIN q}}

\* the sections a response can list
ReturnedSections ==
    {[id |-> "s1", dataPoints |-> << >>],
     [id |-> "s1", dataPoints |-> <<[depth |-> 10, age |-> Some(123456)]>>],
     [id |-> "s1", dataPoints |-> <<[depth |-> 10, age |-> None]>>],
     [id |-> "s1", dataPoints |-> <<[depth |-> 10, age |-> Some(50000)],
                                     [depth |-> 10, age |-> Some(123456)]>>],
     [id |-> "s1", dataPoints |-> <<[depth |-> 20, age |-> Some(50000)]>>],
     [id |-> "s2", dataPoints |-> <<[depth |-> 10, age |-> Some(50000)]>>],
     [id |-> "s3", dataPoints |-> <<[depth |-> 10, age |-> Some(50000)]>>]}

InitAgeModel ==
    /\ Idle
    /\ ai = Some("GoogleGenAI")
    /\ fnArgs \in
          {Some([sections |->
                    <<[id |-> "s1", dataPoints |-> dataPoints],
                      [id |-> "s2", dataPoints |->
                          <<[subsection |-> "B", depth |-> Num(10)]>>]>>,
                 response |-> response]) :
              dataPoints \in SeqsUpTo(LocalPoints, MaxLocalPoints),
              response \in SeqsUpTo(ReturnedSections, MaxReturned)}
    /\ fnResult = None

ReturnAgeModel ==
    /\ fnArgs # None /\ fnResult = None
    /\ fnResult' = Some(generateAgeModel(fnArgs[1].sections, fnArgs[1].response))
    /\ UNCHANGED <<store, sections, selectedSection, loadingSections, calls, status,
                   importJob, now, nOps, fnArgs, sessVars, epochFilter, dimVars, synthVars, appVars>>

NextAgeModel == ReturnAgeModel

SpecAgeModel == InitAgeModel /\ [][NextAgeModel]_vars

-----------------------------------------------------------------------------
(* Properties of the age-model merge *)

\* the returned points of the entry k of the response that give an age for
\* the depth of the local point dp
Matches(response, k, dp) ==
    {n \in DOMAIN response[k].dataPoints :
        /\ response[k].dataPoints[n].age # None
        /\ "depth" \in DOMAIN dp
        /\ dp.depth = Num(response[k].dataPoints[n].depth)}

\* the ages the entries ks of the response give for the depth of dp
ReturnedAges(response, ks, dp) ==
    UNION {{response[k].dataPoints[n].age[1] : n \in Matches(response, k, dp)} :
           k \in ks}

\* dp with the age a
WithAge(dp, a) == [key \in DOMAIN dp \cup {"age"} |-> IF key = "age" THEN Num(a) ELSE dp[key]]

\* r is the multiple of 10^-4 nearest to a
Nearest4(a, r) == r % 10 = 0 /\ r - a <= 5 /\ a - r <= 5

\* C10 as stated: a local point whose depth equals a depth returned with a
\* non-null age for its section receives that age, and every other local
\* point is as it was.
AgesReceivedAsReturned ==
    (fnResult # None /\ ~fnResult[1].thrown) =>
        \A s \in DOMAIN fnArgs[1].sections :
            LET local == fnArgs[1].sections[s]
                final == fnResult[1].finalSections[s]
                response == fnArgs[1].response
                entries == {k \in DOMAIN response : response[k].id = local.id}
            IN  /\ DOMAIN final.dataPoints = DOMAIN local.dataPoints
                /\ \A i \in DOMAIN local.dataPoints :
                      LET dp == local.dataPoints[i]
                          ages == ReturnedAges(response, entries, dp)
                      IN  IF ages # {}
                          THEN \E a \in ages : final.dataPoints[i] = WithAge(dp, a)
                          ELSE final.dataPoints[i] = dp

\* C10, made exact: the ages are taken from the first entry of the response
\* with the section's id; a local point whose depth equals a depth that entry
\* returns with a non-null age receives the age of the last returned point of
\* that depth, rounded to four decimals; every other local point, and every
\* point of a section the response does not list, is as it was.
AgesMergedFromFirstEntry ==
    (fnResult # None /\ ~fnResult[1].thrown) =>
        \A s \in DOMAIN fnArgs[1].sections :
            LET local == fnArgs[1].sections[s]
                final == fnResult[1].finalSections[s]
                response == fnArgs[1].response
                entries == {k \in DOMAIN response : response[k].id = local.id}
                first == {k \in entries : \A j \in entries : k <= j}
            IN  /\ DOMAIN final.dataPoints = DOMAIN local.dataPoints
                /\ \A i \in DOMAIN local.dataPoints :
                      LET dp == local.dataPoints[i]
                      IN  IF ReturnedAges(response, first, dp) # {}
                          THEN \E k \in first : \E n \in Matches(response, k, dp) :
                                  /\ \A m \in Matches(response, k, dp) : m <= n
                                  /\ \E r \in (response[k].dataPoints[n].age[1] - 5)
                                               ..(response[k].dataPoints[n].age[1] + 5) :
                                        /\ Nearest4(response[k].dataPoints[n].age[1], r)
                                        /\ final.dataPoints[i] = WithAge(dp, r)
                          ELSE final.dataPoints[i] = dp

\* a local point at depth 10 without an age, and a response whose first entry
\* for the section returns 1.23456 at depth 10: the point has the age 1.2346
AgesMergedWitness ==
    /\ fnResult # None
    /\ ~fnResult[1].thrown
    /\ Len(fnArgs[1].sections[1].dataPoints) > 0
    /\ DOMAIN fnArgs[1].sections[1].dataPoints[1] = {"subsection", "depth"}
    /\ fnArgs[1].sections[1].dataPoints[1].depth = Num(10)
    /\ Len(fnArgs[1].response) > 0
    /\ fnArgs[1].response[1] =
          [id |-> "s1", dataPoints |-> <<[depth |-> 10, age |-> Some(123456)]>>]
    /\ fnResult[1].finalSections[1].dataPoints[1].age = Num(123460)

-----------------------------------------------------------------------------
(* Properties of the dashboard and the data entry *)

\* the section an update call of this step carries to the store
Dispatched == calls'[Len(calls')].section[1]

KeysOf(dataPoints) == {dataPoints[i].subsection : i \in DOMAIN dataPoints}

\* how many times the point p occurs in the series
CountOf(dataPoints, p) == Cardinality({i \in DOMAIN dataPoints : dataPoints[i] = p})

\* C2: every section of the dashboard's state has a labAnalysis that is the
\* averages of its dataPoints, and an empty one when it has no dataPoints.
LabAnalysisIsAverages ==
    \A j \in DOMAIN sections :
        IsMeanOf(OrEmpty(sections[j].labAnalysis), sections[j].dataPoints)

\* C3: no two data points of a section of the dashboard's state have the same
\* subsection key.
SubsectionKeysUnique ==
    \A j \in DOMAIN sections :
        \A a, b \in DOMAIN sections[j].dataPoints :
            a # b => sections[j].dataPoints[a].subsection
                        # sections[j].dataPoints[b].subsection

\* the series result is the series prior with newPoint merged into the one
\* point of its key, or added when no point has its key
MergedOne(prior, result, newPoint) ==
    LET key == newPoint.subsection
        old == {i \in DOMAIN prior : prior[i].subsection = key}
    IN  /\ Len(result) = Len(prior) + (IF old = {} THEN 1 ELSE 0)
        /\ \E j \in DOMAIN result :
              /\ result[j].subsection = key
              /\ \A k \in DOMAIN newPoint :
                    k \in DOMAIN result[j] /\ result[j][k] = newPoint[k]
              /\ IF old = {} THEN DOMAIN result[j] = DOMAIN newPoint
                 ELSE \E i \in old :
                         /\ DOMAIN result[j] = DOMAIN prior[i] \cup DOMAIN newPoint
                         /\ \A k \in DOMAIN prior[i] \ DOMAIN newPoint :
                               result[j][k] = prior[i][k]
        /\ \A i \in DOMAIN prior :
              prior[i].subsection # key =>
                  CountOf(result, prior[i]) = CountOf(prior, prior[i])

\* C4: a manual entry or an imported row with the key of an existing point is
\* merged into it, every other point is unchanged and the number of points
\* does not change; with a key not yet in the series the number of points
\* grows by exactly one.
MergeKeepsTheOthers ==
    [][/\ \A formState \in FormStates :
             (handleAddDataPoint(formState) /\ calls' # calls) =>
                 MergedOne(selectedSection[1].dataPoints, Dispatched.dataPoints,
                           NewPointData(Trim(formState.subsection), formState))
       /\ \A rows \in Batches :
             (/\ ParseComplete(rows)
              /\ calls' # calls
              /\ \A n \in DOMAIN rows : IsKeyedRow(rows[n])) =>
                 /\ Len(Dispatched.dataPoints)
                       = Len(importJob[1].dataPoints)
                         + Cardinality(KeysOf(rows) \ KeysOf(importJob[1].dataPoints))
                 /\ \A i \in DOMAIN importJob[1].dataPoints :
                       importJob[1].dataPoints[i].subsection \notin KeysOf(rows) =>
                           CountOf(Dispatched.dataPoints, importJob[1].dataPoints[i])
                              = CountOf(importJob[1].dataPoints,
                                        importJob[1].dataPoints[i])
      ]_vars

\* C5: an import none of whose rows has a non-blank subsection, into a series
\* whose keys are distinct, hands on a series of (prior length + number of
\* rows) points whose keys are distinct.
UnkeyedRowsAllKept ==
    [][\A rows \in Batches :
          (/\ ParseComplete(rows)
           /\ calls' # calls
           /\ \A n \in DOMAIN rows : ~IsKeyedRow(rows[n])
           /\ Cardinality(KeysOf(importJob[1].dataPoints))
                 = Len(importJob[1].dataPoints)) =>
              /\ Len(Dispatched.dataPoints)
                    = Len(importJob[1].dataPoints) + Len(rows)
              /\ Cardinality(KeysOf(Dispatched.dataPoints))
                    = Len(Dispatched.dataPoints)
      ]_vars

\* the depth a point is ordered by: 0 when it has none
DepthOf(dp) ==
    IF "depth" \in DOMAIN dp /\ dp.depth.t = "number" THEN dp.depth.v ELSE 0

\* C6: the series handed to the section update by an accepted manual entry or
\* a completed import is in non-decreasing order of depth, a point without
\* a depth counting as depth 0.
HandedOverSortedByDepth ==
    \A i \in DOMAIN calls :
        (calls[i].kind = "update" /\ calls[i].origin \in {"manual", "import"}) =>
            \A a, b \in DOMAIN calls[i].section[1].dataPoints :
                a < b => DepthOf(calls[i].section[1].dataPoints[a])
                            <= DepthOf(calls[i].section[1].dataPoints[b])

\* a manual entry without a depth was handed over in front of points that
\* were stored in descending order of depth
HandedOverWitness ==
    \E i \in DOMAIN calls :
        /\ calls[i].kind = "update" /\ calls[i].origin = "manual"
        /\ Len(calls[i].section[1].dataPoints) = 3
        /\ "depth" \notin DOMAIN calls[i].section[1].dataPoints[1]
        /\ DepthOf(calls[i].section[1].dataPoints[2]) = 1
        /\ DepthOf(calls[i].section[1].dataPoints[3]) = 2

\* the form's subsection is empty after trimming
BlankSubsection(formState) == formState.subsection \in {"", " "}

\* no field of the form but the subsection parses as a number
NoNumber(formState) ==
    \A key \in DOMAIN formState \ {"subsection"} :
        formState[key] \notin {"1", "2", "4", "1e999"}

\* C7: a manual entry whose subsection is empty after trimming, or none of
\* whose other fields parses as a number, sets an error status, makes no
\* call and leaves the sections as they are.
RejectedEntryChangesNothing ==
    [][\A formState \in FormStates :
          (/\ BlankSubsection(formState) \/ NoNumber(formState)
           /\ handleAddDataPoint(formState)) =>
              /\ status'.type = "error"
              /\ UNCHANGED <<calls, store, sections, selectedSection>>
      ]_vars

\* an entry with a subsection and no number was rejected while a section with
\* data points was selected and no call was in flight
RejectedEntryWitness ==
    /\ status = StatusLine("error",
                           "At least one data value (e.g., depth) must be provided.")
    /\ selectedSection # None
    /\ Len(selectedSection[1].dataPoints) = 2
    /\ calls = << >>

\* C8: a reconciliation hands on its dataPoints and the labAnalysis computed
\* from them as one section value, the dashboard takes both from the
\* response of one update, a failed update leaves sections and
\* selectedSection as they were, and nothing else than a response writes a
\* section.
ReconciliationIsWhole ==
    [][/\ (calls' # calls /\ Len(calls') > Len(calls)
             /\ calls'[Len(calls')].origin \in {"manual", "import"}) =>
             /\ Dispatched.labAnalysis # None
             /\ IsMeanOf(Dispatched.labAnalysis[1], Dispatched.dataPoints)
             /\ UNCHANGED <<sections, selectedSection>>
       /\ \A i \in DOMAIN calls :
             /\ UpdateReject(i) => UNCHANGED <<sections, selectedSection>>
             /\ (calls[i].origin \in {"manual", "import"} /\ UpdateResolve(i)) =>
                   \A j \in DOMAIN sections' :
                       IF sections'[j].id = calls[i].section[1].id
                       THEN /\ sections'[j].labAnalysis = calls[i].section[1].labAnalysis
                            /\ Len(sections'[j].dataPoints)
                                  = Len(calls[i].section[1].dataPoints)
                            /\ IsMeanOf(sections'[j].labAnalysis[1],
                                        sections'[j].dataPoints)
                       ELSE sections'[j] = sections[j]
      ]_vars

\* the second section, which had no data points in the store, holds the
\* points and the averages of a reconciliation the store has answered
ReconciliationWitness ==
    \E j \in DOMAIN sections :
        /\ sections[j].id = "s2"
        /\ Len(sections[j].dataPoints) = 2
        /\ sections[j].labAnalysis # None
        /\ "delta18O" \in DOMAIN sections[j].labAnalysis[1]
        /\ sections[j].labAnalysis[1].delta18O = [num |-> 4, den |-> 1]

\* C9: at most one update of a section is in flight at any time.
OneWriteInFlightPerSection ==
    \A i, k \in DOMAIN calls :
        (i # k /\ calls[i].kind = "update" /\ calls[k].kind = "update") =>
            calls[i].section[1].id # calls[k].section[1].id

-----------------------------------------------------------------------------
(* The synthesis view (CoreSynthesisView.tsx): age models and the splice *)

\* bound of the tie-points the assistant holds
MaxTiePoints == 3

\* the number of units of 10^-5 in one unit of age
AgeUnit == 100000

\* setToast({ message, type, show: true })
Toast(type, message) == Some([type |-> type, message |-> message])

\* the rows of the core's sections when the synthesis view is shown
SynthRows ==
    <<[id |-> "s1",
       data_points |-> Some(<<[subsection |-> "A", depth |-> Num(10)],
                              [subsection |-> "B", depth |-> Num(30),
                               age |-> Num(70000)],
                              [subsection |-> "C"]>>),
       microfossil_records |-> None,
       lab_analysis |-> None],
      [id |-> "s2",
       data_points |-> Some(<<[subsection |-> "A", depth |-> Num(10)]>>),
       microfossil_records |-> None,
       lab_analysis |-> None]>>

\* the tie-points the assistant can add
TiePoints ==
    {[sectionId |-> "s1", depth |-> 10, age |-> 1 * AgeUnit],
     [sectionId |-> "s1", depth |-> 30, age |-> 3 * AgeUnit],
     [sectionId |-> "s2", depth |-> 10, age |-> 2 * AgeUnit]}

\* the parsed responses of the service: jsonResponse.sections
Responses ==
    {<< >>,
     <<[id |-> "s1", dataPoints |-> << >>]>>,
     <<[id |-> "s1", dataPoints |-> <<[depth |-> 10, age |-> None]>>],
       [id |-> "s2", dataPoints |-> <<[depth |-> 10, age |-> None]>>]>>,
     <<[id |-> "s1", dataPoints |-> <<[depth |-> 10, age |-> Some(1 * AgeUnit)],
                                      [depth |-> 30, age |-> Some(3 * AgeUnit + 4)]>>],
       [id |-> "s2", dataPoints |-> <<[depth |-> 10, age |-> None]>>]>>,
     <<[id |-> "s1", dataPoints |-> <<[depth |-> 10, age |-> Some(1 * AgeUnit)]>>],
       [id |-> "s2", dataPoints |-> <<[depth |-> 10, age |-> Some(2 * AgeUnit)]>>]>>}

\* the values the inputs of the splice form can hold
SpliceValues == {"", "1", "3"}

\* the message generateAgeModel throws with once the response is parsed
AgeModelError(calibratedSectionsFromAI) ==
    "AI Age Model Error: " \o
    (IF Len(calibratedSectionsFromAI) = 0
     THEN "The AI response for the age model was empty or invalid."
     ELSE "AI failed to calculate age data. This can happen if fewer than two tie-points are provided for a section. Please check your inputs.")

\* the effect on [sections]: every section has an interval with no bound
ResetIntervals(secs) ==
    [id \in {secs[j].id : j \in DOMAIN secs} |->
        [sectionId |-> id, startAge |-> None, endAge |-> None]]

\* the call of generateAgeModel by handleGenerateAgeModel
AgeModelCall(secs, tps) ==
    [kind |-> "ageModel", origin |-> "synthesis", sections |-> secs,
     tiePoints |-> tps, phase |-> "sent"]

\* AgeModelAssistant hands a longer list to onTiePointsChange
AddTiePoint(tp) ==
    /\ Len(tiePoints) < MaxTiePoints
    /\ \A n \in DOMAIN tiePoints : tiePoints[n] # tp
    /\ tiePoints' = Append(tiePoints, tp)
    /\ UNCHANGED <<dashVars, fnArgs, sessVars, epochFilter, dimVars, fnResult, appVars, calibratedSections, isLoading,
                   error, spliceIntervals, toast>>

\* handleGenerateAgeModel up to its await; the button is disabled while
\* isLoading and while there are fewer than two tie-points
handleGenerateAgeModel ==
    /\ ~isLoading
    /\ Len(tiePoints) >= 2
    /\ IF Len(tiePoints) < 2
       THEN /\ toast' = Toast("error",
                  "At least two tie-points are required to generate an age model.")
            /\ UNCHANGED <<calls, isLoading, error>>
       ELSE /\ isLoading' = TRUE
            /\ error' = None
            /\ calls' = Append(calls, AgeModelCall(sections, tiePoints))
            /\ UNCHANGED toast
    /\ UNCHANGED <<store, sections, selectedSection, loadingSections, status,
                   importJob, now, nOps, fnArgs, sessVars, epochFilter, dimVars, fnResult, appVars,
                   calibratedSections,
                   tiePoints, spliceIntervals>>

\* the catch and the finally of handleGenerateAgeModel
AgeModelCatch(message) ==
    /\ error' = Some(message)
    /\ toast' = Toast("error", "Error generating age model: " \o message)
    /\ isLoading' = FALSE
    /\ UNCHANGED calibratedSections

\* the service answers and handleGenerateAgeModel goes on after its await
AgeModelResolve(i, response) ==
    /\ calls[i].kind = "ageModel"
    /\ LET result == generateAgeModel(calls[i].sections, response)
       IN  IF result.thrown
           THEN AgeModelCatch(AgeModelError(response))
           ELSE /\ calibratedSections' = Some(result.finalSections)
                /\ toast' = Toast("success", "Age models generated successfully!")
                /\ isLoading' = FALSE
                /\ UNCHANGED error
    /\ calls' = RemoveAt(calls, i)
    /\ UNCHANGED <<store, sections, selectedSection, loadingSections, status,
                   importJob, now, nOps, fnArgs, sessVars, epochFilter, dimVars, fnResult, appVars, tiePoints,
                   spliceIntervals>>

\* the request fails, or the text of the response is not JSON
AgeModelReject(i) ==
    /\ calls[i].kind = "ageModel"
    /\ AgeModelCatch("AI Age Model Error: Failed to fetch")
    /\ calls' = RemoveAt(calls, i)
    /\ UNCHANGED <<store, sections, selectedSection, loadingSections, status,
                   importJob, now, nOps, fnArgs, sessVars, epochFilter, dimVars, fnResult, appVars, tiePoints,
                   spliceIntervals>>

\* value === '' ? null : parseFloat(value), of an input of type number, in
\* the unit of the ages
NumValue(value) ==
    IF value = "" THEN None ELSE Some(parseFloat(value).v * AgeUnit)

\* handleSpliceIntervalChange; the inputs are disabled until there are
\* calibrated sections, and there is one pair of inputs per section displayed
handleSpliceIntervalChange(sectionId, type, value) ==
    /\ calibratedSections # None
    /\ \E j \in DOMAIN calibratedSections[1] : calibratedSections[1][j].id = sectionId
    /\ sectionId \in DOMAIN spliceIntervals
    /\ spliceIntervals[sectionId][type] # NumValue(value)
    /\ spliceIntervals' =
          [spliceIntervals EXCEPT ![sectionId][type] = NumValue(value)]
    /\ UNCHANGED <<dashVars, fnArgs, sessVars, epochFilter, dimVars, fnResult, appVars, calibratedSections, tiePoints,
                   isLoading, error, toast>>

\* the first of two numbers
FirstOf(a, b) == a

\* Math.min and Math.max of two numbers
Min(a, b) == IF a <= b THEN a ELSE b
Max(a, b) == IF a >= b THEN a ELSE b

\* point.age !== undefined && point.age >= start && point.age <= end
InSplice(point, start, end) ==
    /\ "age" \in DOMAIN point
    /\ point.age.t = "number"
    /\ point.age.v >= start
    /\ point.age.v <= end

\* the points of one calibrated section that compositeSplice pushes
SplicedOf(section, intervals) ==
    IF section.id \notin DOMAIN intervals THEN << >>
    ELSE LET interval == intervals[section.id]
         IN  IF interval.startAge = None \/ interval.endAge = None THEN << >>
             ELSE SelectSeq(section.dataPoints,
                            LAMBDA point :
                                InSplice(point,
                                         Min(interval.startAge[1], interval.endAge[1]),
                                         Max(interval.startAge[1], interval.endAge[1])))

\* allPoints after the first n calibrated sections
RECURSIVE AllPoints(_, _, _)
AllPoints(secs, intervals, n) ==
    IF n = 0 THEN << >>
    ELSE AllPoints(secs, intervals, n - 1) \o SplicedOf(secs[n], intervals)

\* (a.age as number) || 0
AgeOrZero(point) ==
    IF "age" \in DOMAIN point /\ point.age.t = "number" THEN point.age.v ELSE 0

\* a point put in its place in a list in order of age, after its equals
RECURSIVE InsertByAge(_, _)
InsertByAge(sorted, point) ==
    IF sorted = << >> THEN <<point>>
    ELSE IF AgeOrZero(sorted[Len(sorted)]) <= AgeOrZero(point)
         THEN Append(sorted, point)
         ELSE Append(InsertByAge(SubSeq(sorted, 1, Len(sorted) - 1), point),
                     sorted[Len(sorted)])

\* allPoints.sort((a, b) => (a.age || 0) - (b.age || 0)), of the first n points
RECURSIVE SortByAge(_, _)
SortByAge(points, n) ==
    IF n = 0 THEN << >>
    ELSE InsertByAge(SortByAge(points, n - 1), points[n])

\* the memo compositeSplice of [calibratedSections, spliceIntervals]
compositeSplice ==
    IF calibratedSections = None THEN << >>
    ELSE LET allPoints == AllPoints(calibratedSections[1], spliceIntervals,
                                    Len(calibratedSections[1]))
         IN  SortByAge(allPoints, Len(allPoints))

\* the synthesis tab of a dashboard that has loaded the core's sections
InitSynthesis ==
    /\ epochFilter = "all"
    /\ DimIdle
    /\ ai = Some("GoogleGenAI")
    /\ store = SynthRows
    /\ sections = [j \in DOMAIN SynthRows |->
                      WithAverages(dbSectionToAppSection(SynthRows[j]))]
    /\ selectedSection = Some(sections[1])
    /\ loadingSections = FALSE
    /\ calls = << >>
    /\ status = NoStatus
    /\ importJob = None
    /\ now = 0
    /\ nOps = 0
    /\ fnArgs = None
    /\ fnResult = None
    /\ calibratedSections = None
    /\ tiePoints = << >>
    /\ isLoading = FALSE
    /\ error = None
    /\ spliceIntervals = ResetIntervals(sections)
    /\ toast = None
    /\ AppIdle

NextSynthesis ==
    \/ \E tp \in TiePoints : AddTiePoint(tp)
    \/ handleGenerateAgeModel
    \/ \E i \in DOMAIN calls : \E response \in Responses : AgeModelResolve(i, response)
    \/ \E i \in DOMAIN calls : AgeModelReject(i)
    \/ \E sectionId \in SectionIds : \E type \in {"startAge", "endAge"} :
          \E value \in SpliceValues :
             handleSpliceIntervalChange(sectionId, type, value)

SpecSynthesis == InitSynthesis /\ [][NextSynthesis]_vars

-----------------------------------------------------------------------------
(* Properties of the synthesis view *)

\* the response has no non-empty per-section list
NoSectionList(response) ==
    \A k \in DOMAIN response : Len(response[k].dataPoints) = 0

\* no data point anywhere in the response carries a non-null age
NoAgeAnywhere(response) ==
    \A k \in DOMAIN response : \A n \in DOMAIN response[k].dataPoints :
        response[k].dataPoints[n].age = None

\* C11: when the response has no non-empty per-section list, or no data point
\* in it carries a non-null age, generateAgeModel throws and returns no
\* sections, and handleGenerateAgeModel leaves calibratedSections as it was,
\* shows one error (the error line and one error toast of the same message)
\* and clears the loading flag.
AgeModelFailureIsWhole ==
    [][\A i \in DOMAIN calls : \A response \in Responses :
          (/\ calls[i].kind = "ageModel"
           /\ NoSectionList(response) \/ NoAgeAnywhere(response)
           /\ AgeModelResolve(i, response))
          => /\ generateAgeModel(calls[i].sections, response).thrown
             /\ generateAgeModel(calls[i].sections, response).finalSections = << >>
             /\ calibratedSections' = calibratedSections
             /\ error' # None
             /\ toast' = Toast("error", "Error generating age model: " \o error'[1])
             /\ ~isLoading']_vars

\* a generation has failed for want of ages after one that succeeded: the
\* calibrated sections of the first are still there
AgeModelFailureWitness ==
    /\ calibratedSections # None
    /\ error = Some(AgeModelError(<<[id |-> "s1", dataPoints |-> << >>]>>))
    /\ toast # None /\ toast[1].type = "error"
    /\ ~isLoading

\* the number of tie-points of a section
TieCount(tps, id) == Cardinality({n \in DOMAIN tps : tps[n].sectionId = id})

\* C12: a section with fewer than two tie-points is returned by a successful
\* generation as it was given, whatever the service returns for it.
FewTiePointsPassThrough ==
    [][\A i \in DOMAIN calls : \A response \in Responses :
          (/\ calls[i].kind = "ageModel"
           /\ ~generateAgeModel(calls[i].sections, response).thrown
           /\ AgeModelResolve(i, response))
          => \A s \in DOMAIN calls[i].sections :
                TieCount(calls[i].tiePoints, calls[i].sections[s].id) < 2
                => calibratedSections'[1][s] = calls[i].sections[s]]_vars

\* the age of the point lies within the interval, whichever bound is the lower
Within(point, interval) ==
    /\ "age" \in DOMAIN point
    /\ interval.startAge # None /\ interval.endAge # None
    /\ \/ interval.startAge[1] <= point.age.v /\ point.age.v <= interval.endAge[1]
       \/ interval.endAge[1] <= point.age.v /\ point.age.v <= interval.startAge[1]

\* the places of the calibrated sections whose point is p and lies within the
\* interval of its section
PlacesWithin(p) ==
    UNION {{<<j, n>> : n \in {m \in DOMAIN calibratedSections[1][j].dataPoints :
                                /\ calibratedSections[1][j].dataPoints[m] = p
                                /\ Within(p, spliceIntervals[calibratedSections[1][j].id])}} :
           j \in DOMAIN calibratedSections[1]}

-----------------------------------------------------------------------------
(* App (cores and folders) and the cores, folders and sections tables *)

\* bound of the remote operations App begins
MaxAppOps == 2

\* dbCoreToAppCore: folder_id null becomes undefined, both written None
dbCoreToAppCore(dbCore) ==
    [id |-> dbCore.id, name |-> dbCore.name, user_id |-> dbCore.user_id,
     folder_id |-> dbCore.folder_id]

\* appCoreToDbCore
appCoreToDbCore(appCore, userId) ==
    [id |-> appCore.id, user_id |-> userId, name |-> appCore.name,
     folder_id |-> appCore.folder_id]

\* the cores table: two cores of the session's user in folder F and a core of
\* another user
SeedCores ==
    <<[id |-> "X", user_id |-> "u1", name |-> "n1", folder_id |-> Some("F")],
      [id |-> "Y", user_id |-> "u1", name |-> "n1", folder_id |-> Some("F")],
      [id |-> "W", user_id |-> "u2", name |-> "n1", folder_id |-> None]>>

SeedFolders == <<[id |-> "F", user_id |-> "u1", name |-> "f1"]>>

\* the sections table, a section for each core of the session's user
SeedSections ==
    <<[id |-> "s1", core_id |-> "X", data_points |-> None,
       microfossil_records |-> None, lab_analysis |-> None],
      [id |-> "s2", core_id |-> "Y", data_points |-> None,
       microfossil_records |-> None, lab_analysis |-> None]>>

\* the cores the add form can hold, and the name an edit gives
NewCores ==
    {[id |-> id, name |-> "n2", user_id |-> SessionUser, folder_id |-> None] :
        id \in {"X", "W", "N"}}

HasId(seq, id) == \E n \in DOMAIN seq : seq[n].id = id

\* the effect on [cores, selectedCore]: no selection, or a selection that is
\* not in the list, falls to the first core
CoreSelectionEffect(cs, sel) ==
    IF sel = None \/ ~HasId(cs, sel[1].id)
    THEN (IF cs = << >> THEN None ELSE Some(cs[1]))
    ELSE sel

\* setCores and setSelectedCore, then the effect
CommitCores(cs, sel) ==
    /\ cores' = cs
    /\ selectedCore' = CoreSelectionEffect(cs, sel)

\* neither the core modal nor the confirmation lies over the page
NoModal == ~isCoreModalOpen /\ ~confirmModalState.isOpen

\* handleSelectCore
handleSelectCore(core) ==
    /\ NoModal
    /\ \E n \in DOMAIN cores : cores[n] = core
    /\ selectedCore # Some(core)
    /\ selectedCore' = Some(core)
    /\ UNCHANGED <<dashVars, fnArgs, sessVars, epochFilter, dimVars, fnResult, synthVars, cores, folders,
                   editingCore, isCoreModalOpen, confirmModalState, coresTable,
                   foldersTable>>

handleOpenAddCoreModal ==
    /\ NoModal
    /\ editingCore' = None
    /\ isCoreModalOpen' = TRUE
    /\ UNCHANGED <<dashVars, fnArgs, sessVars, epochFilter, dimVars, fnResult, synthVars, cores, folders,
                   selectedCore, confirmModalState, coresTable, foldersTable>>

\* handleOpenEditCoreModal, which the dashboard calls with the core it shows
handleOpenEditCoreModal ==
    /\ NoModal
    /\ selectedCore # None
    /\ editingCore' = selectedCore
    /\ isCoreModalOpen' = TRUE
    /\ UNCHANGED <<dashVars, fnArgs, sessVars, epochFilter, dimVars, fnResult, synthVars, cores, folders,
                   selectedCore, confirmModalState, coresTable, foldersTable>>

\* onClose of the core modal
CloseCoreModal ==
    /\ isCoreModalOpen
    /\ isCoreModalOpen' = FALSE
    /\ editingCore' = None
    /\ UNCHANGED <<dashVars, fnArgs, sessVars, epochFilter, dimVars, fnResult, synthVars, cores, folders,
                   selectedCore, confirmModalState, coresTable, foldersTable>>

\* the call of coreService.saveCore by handleSaveCore; the handler's closure
\* holds the cores of the render it was created in
SaveCoreCall(coreToSave, isEditing) ==
    [kind |-> "saveCore", core |-> coreToSave, isEditing |-> isEditing,
     addMode |-> editingCore = None, closureCores |-> cores,
     phase |-> "sent", result |-> << >>, message |-> ""]

\* handleSaveCore up to its await, called by the modal with the core its form
\* holds: any new core when it was opened to add, the edited core renamed
\* when it was opened to edit
handleSaveCore(coreToSave) ==
    /\ isCoreModalOpen
    /\ nOps < MaxAppOps
    /\ IF editingCore = None THEN coreToSave \in NewCores
       ELSE coreToSave = [editingCore[1] EXCEPT !.name = "n2"]
    /\ calls' = Append(calls,
          SaveCoreCall(coreToSave, HasId(cores, coreToSave.id)))
    /\ nOps' = nOps + 1
    /\ UNCHANGED <<store, sections, selectedSection, loadingSections, status,
                   importJob, now, fnArgs, sessVars, epochFilter, dimVars, fnResult, synthVars, appVars>>

\* saveCore, editing: the rows with the core's id take the payload, which
\* holds neither id nor user_id, and are returned
StoreCoreUpdate(i) ==
    /\ calls[i].kind = "saveCore" /\ calls[i].phase = "sent"
    /\ calls[i].isEditing
    /\ LET dbCore == appCoreToDbCore(calls[i].core, SessionUser)
           updated == [n \in DOMAIN coresTable |->
                          IF coresTable[n].id = dbCore.id
                          THEN [coresTable[n] EXCEPT !.name = dbCore.name,
                                                     !.folder_id = dbCore.folder_id]
                          ELSE coresTable[n]]
           data == SelectSeq(updated, LAMBDA row : row.id = dbCore.id)
       IN  /\ coresTable' = updated
           /\ calls' = IF data = << >>
                       THEN [calls EXCEPT ![i].phase = "failed",
                                ![i].message = "Failed to save core, no data returned."]
                       ELSE [calls EXCEPT ![i].phase = "ok", ![i].result = <<data[1]>>]
    /\ UNCHANGED <<store, sections, selectedSection, loadingSections, status,
                   importJob, now, nOps, fnArgs, sessVars, epochFilter, dimVars, fnResult, synthVars, cores,
                   folders, selectedCore, editingCore, isCoreModalOpen,
                   confirmModalState, foldersTable>>

\* saveCore, not editing: the select of a row with the core's id
StoreCoreCheck(i) ==
    /\ calls[i].kind = "saveCore" /\ calls[i].phase = "sent"
    /\ ~calls[i].isEditing
    /\ calls' = IF HasId(coresTable, calls[i].core.id)
                THEN [calls EXCEPT ![i].phase = "failed",
                         ![i].message = "Core with ID \"" \o calls[i].core.id \o
                                        "\" already exists. Please use a unique ID."]
                ELSE [calls EXCEPT ![i].phase = "checked"]
    /\ UNCHANGED <<store, sections, selectedSection, loadingSections, status,
                   importJob, now, nOps, fnArgs, sessVars, epochFilter, dimVars, fnResult, synthVars, appVars>>

\* saveCore, not editing: the insert, which the primary key of the table
\* refuses when a row has the id
StoreCoreInsert(i) ==
    /\ calls[i].kind = "saveCore" /\ calls[i].phase = "checked"
    /\ LET dbCore == appCoreToDbCore(calls[i].core, SessionUser)
       IN  IF HasId(coresTable, dbCore.id)
           THEN /\ calls' = [calls EXCEPT ![i].phase = "failed",
                                ![i].message = "duplicate key value violates unique constraint"]
                /\ UNCHANGED coresTable
           ELSE /\ coresTable' = Append(coresTable, dbCore)
                /\ calls' = [calls EXCEPT ![i].phase = "ok", ![i].result = <<dbCore>>]
    /\ UNCHANGED <<store, sections, selectedSection, loadingSections, status,
                   importJob, now, nOps, fnArgs, sessVars, epochFilter, dimVars, fnResult, synthVars, cores,
                   folders, selectedCore, editingCore, isCoreModalOpen,
                   confirmModalState, foldersTable>>

\* handleSaveCore after its await, on success
SaveCoreResolve(i) ==
    /\ calls[i].kind = "saveCore" /\ calls[i].phase = "ok"
    /\ LET savedCore == dbCoreToAppCore(calls[i].result[1])
           closure == calls[i].closureCores
           updatedCores ==
               IF calls[i].isEditing
               THEN [n \in DOMAIN closure |->
                        IF closure[n].id = savedCore.id THEN savedCore ELSE closure[n]]
               ELSE Append(closure, savedCore)
       IN  /\ CommitCores(updatedCores, Some(savedCore))
           /\ toast' = Toast("success", "Core \"" \o savedCore.id \o "\" saved.")
    /\ isCoreModalOpen' = FALSE
    /\ editingCore' = None
    /\ calls' = RemoveAt(calls, i)
    /\ UNCHANGED <<store, sections, selectedSection, loadingSections, status,
                   importJob, now, nOps, fnArgs, sessVars, epochFilter, dimVars, fnResult, calibratedSections,
                   tiePoints, isLoading, error, spliceIntervals, folders,
                   confirmModalState, coresTable, foldersTable>>

\* saveCore throws, with the error it made or with an error of the store, and
\* the catch of handleSaveCore shows it
SaveCoreReject(i) ==
    /\ calls[i].kind = "saveCore"
    /\ calls[i].phase \in {"sent", "checked", "failed"}
    /\ toast' = Toast("error", "Error: " \o
                 (IF calls[i].phase = "failed" THEN calls[i].message
                  ELSE "Failed to fetch"))
    /\ calls' = RemoveAt(calls, i)
    /\ UNCHANGED <<store, sections, selectedSection, loadingSections, status,
                   importJob, now, nOps, fnArgs, sessVars, epochFilter, dimVars, fnResult, calibratedSections,
                   tiePoints, isLoading, error, spliceIntervals, appVars>>

\* handleDeleteCore, which the dashboard calls with the id of the core it
\* shows: the confirmation is opened, and its onConfirm holds the cores and
\* the selection of the render the handler was created in
handleDeleteCore(coreId) ==
    /\ selectedCore # None /\ selectedCore[1].id = coreId
    /\ NoModal
    /\ confirmModalState' =
          [isOpen |-> TRUE,
           onConfirm |-> Some([kind |-> "deleteCore", id |-> coreId,
                               closureCores |-> cores,
                               closureSelected |-> selectedCore])]
    /\ UNCHANGED <<dashVars, fnArgs, sessVars, epochFilter, dimVars, fnResult, synthVars, cores, folders,
                   selectedCore, editingCore, isCoreModalOpen, coresTable,
                   foldersTable>>

\* handleDeleteFolder: the confirmation is opened
handleDeleteFolder(folderId) ==
    /\ HasId(folders, folderId)
    /\ NoModal
    /\ confirmModalState' =
          [isOpen |-> TRUE,
           onConfirm |-> Some([kind |-> "deleteFolder", id |-> folderId,
                               closureCores |-> << >>,
                               closureSelected |-> None])]
    /\ UNCHANGED <<dashVars, fnArgs, sessVars, epochFilter, dimVars, fnResult, synthVars, cores, folders,
                   selectedCore, editingCore, isCoreModalOpen, coresTable,
                   foldersTable>>

\* setConfirmModalState(prev => ({ ...prev, isOpen: false })): the closure
\* of a closed confirmation is never run, and is forgotten here
ClosedModal == [isOpen |-> FALSE, onConfirm |-> None]

\* the confirmation is closed without confirming
ConfirmModalClose ==
    /\ confirmModalState.isOpen
    /\ confirmModalState' = ClosedModal
    /\ UNCHANGED <<dashVars, fnArgs, sessVars, epochFilter, dimVars, fnResult, synthVars, cores, folders,
                   selectedCore, editingCore, isCoreModalOpen, coresTable,
                   foldersTable>>

\* the confirmation is confirmed: onConfirm runs up to its await, calling
\* coreService.deleteCore or coreService.deleteFolder, and the modal closes
ConfirmModalConfirm ==
    /\ confirmModalState.isOpen
    /\ nOps < MaxAppOps
    /\ calls' = Append(calls,
          [kind |-> confirmModalState.onConfirm[1].kind,
           id |-> confirmModalState.onConfirm[1].id,
           closureCores |-> confirmModalState.onConfirm[1].closureCores,
           closureSelected |-> confirmModalState.onConfirm[1].closureSelected,
           phase |-> "sent"])
    /\ nOps' = nOps + 1
    /\ confirmModalState' = ClosedModal
    /\ UNCHANGED <<store, sections, selectedSection, loadingSections, status,
                   importJob, now, fnArgs, sessVars, epochFilter, dimVars, fnResult, synthVars, cores, folders,
                   selectedCore, editingCore, isCoreModalOpen, coresTable,
                   foldersTable>>

\* every row of the sections table
AllSections(rows, coreId) == rows

\* from('sections').delete().eq('core_id', coreId): the rows that are left
SectionsOfOthers(rows, coreId) ==
    SelectSeq(rows, LAMBDA row : row.core_id # coreId)

\* deleteCore, first statement: the sections of the core are deleted
StoreDeleteSectionsOfCore(i) ==
    /\ calls[i].kind = "deleteCore" /\ calls[i].phase = "sent"
    /\ store' = SectionsOfOthers(store, calls[i].id)
    /\ calls' = [calls EXCEPT ![i].phase = "first"]
    /\ UNCHANGED <<sections, selectedSection, loadingSections, status,
                   importJob, now, nOps, fnArgs, sessVars, epochFilter, dimVars, fnResult, synthVars, appVars>>

\* deleteCore, second statement: the core is deleted
StoreDeleteCore(i) ==
    /\ calls[i].kind = "deleteCore" /\ calls[i].phase = "first"
    /\ coresTable' = SelectSeq(coresTable, LAMBDA row : row.id # calls[i].id)
    /\ calls' = [calls EXCEPT ![i].phase = "ok"]
    /\ UNCHANGED <<store, viewVars, fnArgs, sessVars, epochFilter, dimVars, fnResult, synthVars, cores, folders,
                   selectedCore, editingCore, isCoreModalOpen,
                   confirmModalState, foldersTable>>

\* onConfirm of handleDeleteCore after its await, on success
DeleteCoreResolve(i) ==
    /\ calls[i].kind = "deleteCore" /\ calls[i].phase = "ok"
    /\ LET updatedCores ==
               SelectSeq(calls[i].closureCores, LAMBDA c : c.id # calls[i].id)
       IN  CommitCores(updatedCores,
                       IF /\ calls[i].closureSelected # None
                          /\ calls[i].closureSelected[1].id = calls[i].id
                       THEN (IF updatedCores = << >> THEN None
                             ELSE Some(updatedCores[1]))
                       ELSE selectedCore)
    /\ toast' = Toast("success", "Core \"" \o calls[i].id \o "\" deleted.")
    /\ calls' = RemoveAt(calls, i)
    /\ UNCHANGED <<store, viewVars, fnArgs, sessVars, epochFilter, dimVars, fnResult, calibratedSections, tiePoints,
                   isLoading, error, spliceIntervals, folders, editingCore,
                   isCoreModalOpen, confirmModalState, coresTable, foldersTable>>

\* what the catch of an onConfirm leaves of App's lists
DeleteCatch ==
    UNCHANGED <<cores, folders, selectedCore>>

\* one of the two statements of deleteCore fails and the catch shows a toast
DeleteCoreReject(i) ==
    /\ calls[i].kind = "deleteCore" /\ calls[i].phase \in {"sent", "first"}
    /\ DeleteCatch
    /\ toast' = Toast("error", "Error: Failed to fetch")
    /\ calls' = RemoveAt(calls, i)
    /\ UNCHANGED <<store, viewVars, fnArgs, sessVars, epochFilter, dimVars, fnResult, calibratedSections, tiePoints,
                   isLoading, error, spliceIntervals, editingCore,
                   isCoreModalOpen, confirmModalState, coresTable, foldersTable>>

\* deleteFolder, first statement: the cores of the folder are unlinked
StoreUnlinkCores(i) ==
    /\ calls[i].kind = "deleteFolder" /\ calls[i].phase = "sent"
    /\ coresTable' = [n \in DOMAIN coresTable |->
                         IF coresTable[n].folder_id = Some(calls[i].id)
                         THEN [coresTable[n] EXCEPT !.folder_id = None]
                         ELSE coresTable[n]]
    /\ calls' = [calls EXCEPT ![i].phase = "first"]
    /\ UNCHANGED <<store, viewVars, fnArgs, sessVars, epochFilter, dimVars, fnResult, synthVars, cores, folders,
                   selectedCore, editingCore, isCoreModalOpen,
                   confirmModalState, foldersTable>>

\* deleteFolder, second statement: the folder is deleted
StoreDeleteFolder(i) ==
    /\ calls[i].kind = "deleteFolder" /\ calls[i].phase = "first"
    /\ foldersTable' = SelectSeq(foldersTable, LAMBDA row : row.id # calls[i].id)
    /\ calls' = [calls EXCEPT ![i].phase = "ok"]
    /\ UNCHANGED <<store, viewVars, fnArgs, sessVars, epochFilter, dimVars, fnResult, synthVars, cores, folders,
                   selectedCore, editingCore, isCoreModalOpen,
                   confirmModalState, coresTable>>

\* the cores as they are
StillFiled(cs, folderId) == cs

\* setCores(prev => prev.map(c => c.folder_id === folderId ? unfiled : c))
Unfiled(cs, folderId) ==
    [n \in DOMAIN cs |->
        IF cs[n].folder_id = Some(folderId)
        THEN [cs[n] EXCEPT !.folder_id = None]
        ELSE cs[n]]

\* onConfirm of handleDeleteFolder after its await, on success
DeleteFolderResolve(i) ==
    /\ calls[i].kind = "deleteFolder" /\ calls[i].phase = "ok"
    /\ folders' = SelectSeq(folders, LAMBDA f : f.id # calls[i].id)
    /\ CommitCores(Unfiled(cores, calls[i].id), selectedCore)
    /\ calls' = RemoveAt(calls, i)
    /\ UNCHANGED <<store, viewVars, fnArgs, sessVars, epochFilter, dimVars, fnResult, synthVars, editingCore,
                   isCoreModalOpen, confirmModalState, coresTable, foldersTable>>

\* one of the two statements of deleteFolder fails and the catch shows a toast
DeleteFolderReject(i) ==
    /\ calls[i].kind = "deleteFolder" /\ calls[i].phase \in {"sent", "first"}
    /\ DeleteCatch
    /\ toast' = Toast("error", "Error: Failed to fetch")
    /\ calls' = RemoveAt(calls, i)
    /\ UNCHANGED <<store, viewVars, fnArgs, sessVars, epochFilter, dimVars, fnResult, calibratedSections, tiePoints,
                   isLoading, error, spliceIntervals, editingCore,
                   isCoreModalOpen, confirmModalState, coresTable, foldersTable>>

\* App once loadData has fetched the cores and the folders of the user
InitApp ==
    /\ epochFilter = "all"
    /\ DimIdle
    /\ SignedIn
    /\ ai = Some("GoogleGenAI")
    /\ store = SeedSections
    /\ sections = << >>
    /\ selectedSection = None
    /\ loadingSections = FALSE
    /\ calls = << >>
    /\ status = NoStatus
    /\ importJob = None
    /\ now = 0
    /\ nOps = 0
    /\ fnArgs = None
    /\ fnResult = None
    /\ SynthIdle
    /\ coresTable = SeedCores
    /\ foldersTable = SeedFolders
    /\ cores = LET mine == SelectSeq(SeedCores, LAMBDA row : row.user_id = SessionUser)
               IN  [n \in DOMAIN mine |-> dbCoreToAppCore(mine[n])]
    /\ folders = SeedFolders
    /\ selectedCore = Some(cores[1])
    /\ editingCore = None
    /\ isCoreModalOpen = FALSE
    /\ confirmModalState = [isOpen |-> FALSE, onConfirm |-> None]

NextApp ==
    \/ \E n \in DOMAIN cores : handleSelectCore(cores[n])
    \/ handleOpenAddCoreModal
    \/ handleOpenEditCoreModal
    \/ CloseCoreModal
    \/ \E coreToSave \in NewCores \cup
                         {[c EXCEPT !.name = "n2"] : c \in {cores[n] : n \in DOMAIN cores}} :
          handleSaveCore(coreToSave)
    \/ \E n \in DOMAIN cores : handleDeleteCore(cores[n].id)
    \/ \E n \in DOMAIN folders : handleDeleteFolder(folders[n].id)
    \/ ConfirmModalClose
    \/ ConfirmModalConfirm
    \/ \E i \in DOMAIN calls : StoreCoreUpdate(i)
    \/ \E i \in DOMAIN calls : StoreCoreCheck(i)
    \/ \E i \in DOMAIN calls : StoreCoreInsert(i)
    \/ \E i \in DOMAIN calls : SaveCoreResolve(i)
    \/ \E i \in DOMAIN calls : SaveCoreReject(i)
    \/ \E i \in DOMAIN calls : StoreDeleteSectionsOfCore(i)
    \/ \E i \in DOMAIN calls : StoreDeleteCore(i)
    \/ \E i \in DOMAIN calls : DeleteCoreResolve(i)
    \/ \E i \in DOMAIN calls : DeleteCoreReject(i)
    \/ \E i \in DOMAIN calls : StoreUnlinkCores(i)
    \/ \E i \in DOMAIN calls : StoreDeleteFolder(i)
    \/ \E i \in DOMAIN calls : DeleteFolderResolve(i)
    \/ \E i \in DOMAIN calls : DeleteFolderReject(i)

SpecApp == InitApp /\ [][NextApp]_vars

-----------------------------------------------------------------------------
(* Properties of App's deletions and saves *)

\* the rows or cores of a list that are in the folder
InFolder(seq, folderId) == {n \in DOMAIN seq : seq[n].folder_id = Some(folderId)}

\* seq2 is seq1 with no folder for the members of the folder and nothing else
\* changed: no element is gone, none is added
Unlinked(seq1, seq2, folderId) ==
    /\ DOMAIN seq2 = DOMAIN seq1
    /\ \A n \in DOMAIN seq1 :
          /\ seq2[n].id = seq1[n].id
          /\ seq2[n].name = seq1[n].name
          /\ seq2[n].folder_id =
                IF n \in InFolder(seq1, folderId) THEN None ELSE seq1[n].folder_id

\* C14: a confirmed folder deletion unlinks the folder's cores and then
\* deletes the folder in the store, deleting no core and touching no section;
\* once it completes the folder is not listed and no core of the list has it,
\* no core having left the list; a failure of either remote statement leaves
\* the local folders and cores as they were.
FolderDeletionUnlinks ==
    [][\A i \in DOMAIN calls :
          calls[i].kind = "deleteFolder" =>
             /\ StoreUnlinkCores(i) =>
                   /\ Unlinked(coresTable, coresTable', calls[i].id)
                   /\ InFolder(coresTable', calls[i].id) = {}
                   /\ UNCHANGED <<store, foldersTable, cores, folders>>
             /\ StoreDeleteFolder(i) =>
                   /\ ~HasId(foldersTable', calls[i].id)
                   /\ UNCHANGED <<store, coresTable, cores, folders>>
             /\ DeleteFolderResolve(i) =>
                   /\ ~HasId(folders', calls[i].id)
                   /\ Unlinked(cores, cores', calls[i].id)
                   /\ InFolder(cores', calls[i].id) = {}
                   /\ UNCHANGED <<store, coresTable, foldersTable>>
             /\ DeleteFolderReject(i) => UNCHANGED <<cores, folders>>]_vars

\* the folder of two cores has been deleted: it is in neither list, the two
\* cores are in both lists without a folder, and their sections are there
FolderDeletionWitness ==
    /\ calls = << >>
    /\ folders = << >> /\ foldersTable = << >>
    /\ Len(cores) = 2 /\ \A n \in DOMAIN cores : cores[n].folder_id = None
    /\ Len(coresTable) = 3 /\ \A n \in DOMAIN coresTable : coresTable[n].folder_id = None
    /\ store = SeedSections

\* a step of the call i of deleteCore
DeleteCoreStep(i) ==
    \/ StoreDeleteSectionsOfCore(i)
    \/ StoreDeleteCore(i)
    \/ DeleteCoreResolve(i)
    \/ DeleteCoreReject(i)

\* C15: deleteCore deletes every section of the core and then the core,
\* leaving the sections of other cores and the other cores as they were; the
\* local list and the selection change only once both deletions have
\* succeeded, and then the core is not in the list and not selected.
CoreDeletionCascades ==
    [][\A i \in DOMAIN calls :
          calls[i].kind = "deleteCore" =>
             /\ StoreDeleteSectionsOfCore(i) =>
                   /\ \A n \in DOMAIN store' : store'[n].core_id # calls[i].id
                   /\ \A n \in DOMAIN store :
                         store[n].core_id # calls[i].id =>
                            \E k \in DOMAIN store' : store'[k] = store[n]
                   /\ \A k \in DOMAIN store' : \E n \in DOMAIN store : store[n] = store'[k]
                   /\ UNCHANGED coresTable
             /\ StoreDeleteCore(i) =>
                   /\ ~HasId(coresTable', calls[i].id)
                   /\ \A n \in DOMAIN coresTable :
                         coresTable[n].id # calls[i].id =>
                            \E k \in DOMAIN coresTable' : coresTable'[k] = coresTable[n]
                   /\ \A n \in DOMAIN store' : store'[n].core_id # calls[i].id
                   /\ UNCHANGED store
             /\ (calls[i].phase # "ok" /\ DeleteCoreStep(i)) =>
                   UNCHANGED <<cores, selectedCore>>
             /\ DeleteCoreResolve(i) =>
                   /\ ~HasId(cores', calls[i].id)
                   /\ selectedCore' = None \/ selectedCore'[1].id # calls[i].id]_vars

\* the selected core X has been deleted: neither it nor its section is in the
\* store, the section of Y is, and Y is selected in a list without X
CoreDeletionWitness ==
    /\ calls = << >>
    /\ ~HasId(coresTable, "X") /\ HasId(coresTable, "Y")
    /\ store = <<SeedSections[2]>>
    /\ ~HasId(cores, "X")
    /\ selectedCore # None /\ selectedCore[1].id = "Y"
    /\ toast = Toast("success", "Core \"X\" deleted.")

\* C16: a save that arrives in add mode with an identifier the cores table
\* has is rejected with the 'already exists' error, and the table is as it
\* was.
AddOfExistingIsRejected ==
    [][\A i \in DOMAIN calls :
          (/\ calls[i].kind = "saveCore"
           /\ calls[i].addMode
           /\ calls[i].phase = "sent"
           /\ HasId(coresTable, calls[i].core.id)
           /\ StoreCoreUpdate(i) \/ StoreCoreCheck(i))
          => /\ coresTable' = coresTable
             /\ calls'[i].phase = "failed"
             /\ calls'[i].message = "Core with ID \"" \o calls[i].core.id \o
                                    "\" already exists. Please use a unique ID."]_vars

-----------------------------------------------------------------------------
(* The AI-dependent functions of the service, each called on its own *)

InitAi ==
    /\ Idle
    /\ fnArgs \in {Some([fn |-> fn, API_KEY |-> key, outcome |-> outcome]) :
                      fn \in AiFunctions, key \in ApiKeys, outcome \in Outcomes}
    /\ fnResult = None
    /\ ai = initializeGeminiClient(fnArgs[1].API_KEY)

ReturnAi ==
    /\ fnArgs # None /\ fnResult = None
    /\ fnResult' = Some(AiCall(fnArgs[1].fn, fnArgs[1].API_KEY, fnArgs[1].outcome))
    /\ UNCHANGED <<dashVars, fnArgs, sessVars, epochFilter, dimVars, synthVars, appVars>>

NextAi == ReturnAi

SpecAi == InitAi /\ [][NextAi]_vars

\* C17: with the API key absent, each AI-dependent function ends with its
\* fixed 'not configured' message, returned or thrown, and no request has
\* been made.
AbsentKeyShortCircuits ==
    (fnResult # None /\ fnArgs[1].API_KEY \in {None, Some("")}) =>
        /\ fnResult[1].requests = 0
        /\ fnResult[1].message \in
              {"API key is not configured.",
               "Error: API key is not configured.",
               "Error: API key is not configured. Please contact the administrator."}
        /\ \A outcome \in Outcomes :
              AiCall(fnArgs[1].fn, fnArgs[1].API_KEY, outcome) = fnResult[1]

\* mapCsvHeaders has been called with no key and has thrown, and the summary
\* with an empty key and has returned its message
AbsentKeyWitness ==
    /\ fnResult # None
    /\ \/ /\ fnArgs[1].fn = "mapCsvHeaders" /\ fnArgs[1].API_KEY = None
          /\ fnResult[1] = Thrown("API key is not configured.", 0)
       \/ /\ fnArgs[1].fn = "generateSectionSummary" /\ fnArgs[1].API_KEY = Some("")
          /\ fnResult[1] = Returned("Error: API key is not configured.", 0)

-----------------------------------------------------------------------------
(* The errors of the file import *)

\* the step leaves the sections table, the calls in flight and the sections
\* of the dashboard as they are
SectionsUntouched ==
    /\ store' = store
    /\ calls' = calls
    /\ sections' = sections
    /\ selectedSection' = selectedSection

\* C18: when the parse of the header line yields no header, the import shows
\* an error and clears its processing flag, mapCsvHeaders is not called for
\* the file, the mapping modal is not opened, and neither the section nor its
\* row is changed.
NoHeadersEndsTheImport ==
    [][(headerJob # None /\ HeaderParseComplete(<< >>)) =>
          /\ status'.type = "error"
          /\ status'.msg \in {"Could not read headers from CSV.",
                              "Could not read headers from ODV."}
          /\ ~isProcessing'
          /\ headerJob' = None
          /\ ~isMappingHeaders'
          /\ importJob' = None
          /\ SectionsUntouched]_vars

\* the header line of an ODV file has been read without headers
NoHeadersWitness ==
    /\ status = StatusLine("error", "Could not read headers from ODV.")
    /\ ~isProcessing /\ ~isMappingHeaders /\ headerJob = None
    /\ ai # None

\* C19: when the confirmed mapping yields no row, or the file fails to parse,
\* the import shows an error (on the manager that is mounted), clears its
\* processing flag, and onUpdateSection is not called: no call is dispatched,
\* and neither the section nor its row is changed.
FailedImportWritesNothing ==
    [][(importJob # None
          /\ \/ \E rows \in Batches : Len(rows) = 0 /\ ParseComplete(rows)
             \/ \E message \in ParseErrors, inCallback \in {"complete", "error"} :
                   ParseFails(message, inCallback)) =>
          /\ ~loadingSections =>
                /\ status'.type = "error"
                /\ status'.msg \in
                      {"No valid data points could be parsed from the file.",
                       "Parsing Error: Too few fields",
                       "File Read Error: Too few fields"}
          /\ ~isProcessing'
          /\ importJob' = None
          /\ SectionsUntouched]_vars

\* a file whose mapping was confirmed has failed to parse, or has yielded no
\* row, and nothing is in flight
FailedImportWitness ==
    /\ status.msg \in {"No valid data points could be parsed from the file.",
                       "Parsing Error: Too few fields"}
    /\ importJob = None /\ ~isProcessing
    /\ calls = << >>
    /\ nOps > 1

-----------------------------------------------------------------------------
(* The counts of an import *)

\* the key the row at position n is merged under
RowKey(rows, n, clock) ==
    IF IsKeyedRow(rows[n]) THEN rows[n].subsection ELSE ImportedId(clock, n - 1)

\* the rows whose key a point of the series or an earlier row already has
RowsIntoPresentKey(prior, rows, clock) ==
    {n \in DOMAIN rows :
        RowKey(rows, n, clock) \in
            KeysOf(prior) \cup {RowKey(rows, m, clock) : m \in 1..(n - 1)}}

\* the counts a and u are those of the import of rows into prior that handed
\* on the series result
CountsMatch(a, u, prior, rows, result, clock) ==
    /\ a + u = Len(rows)
    /\ a = Len(result) - Len(prior)
    /\ u = Cardinality(RowsIntoPresentKey(prior, rows, clock))

\* C20: the counts an import shows add up to the number of rows; addedCount
\* is the number of points the series gained and updatedCount the number of
\* rows merged into a key that was already present.
ImportCountsMatch ==
    [][\A rows \in Batches :
          (importJob # None /\ ~loadingSections /\ ParseComplete(rows)
             /\ calls' # calls) =>
              \E a, u \in 0..Len(rows) :
                  /\ status'.msg = ImportedMsg(a, u)
                  /\ CountsMatch(a, u, importJob[1].dataPoints, rows,
                                 Dispatched.dataPoints, now')
      ]_vars

-----------------------------------------------------------------------------
(* The header mapping *)

\* the set of the headers of a line
HeadersOf(headers) == {headers[n] : n \in DOMAIN headers}

\* C21: when the request of mapCsvHeaders fails, or its response is not
\* JSON, mapCsvHeaders returns the mapping that holds null for every header
\* supplied and no other key, and the mapping modal is opened on that mapping
\* with the processing flag cleared.
FailedMappingIsAllNull ==
    [][\A outcome \in {"error", "notJson"}, mapping \in AiMappings :
          (headerJob # None /\ ai # None /\ MapHeadersSettle(outcome, mapping)) =>
              LET headers == headerJob[1].headers
                  aiMap == mapCsvHeaders(ai, headers, outcome, mapping)
              IN  /\ aiMap.kind = "returned"
                  /\ DOMAIN aiMap.message = HeadersOf(headers)
                  /\ \A h \in HeadersOf(headers) : aiMap.message[h] = None
                  /\ headerMap' = aiMap.message
                  /\ isMappingHeaders'
                  /\ ~isProcessing'
                  /\ status' = NoStatus
      ]_vars

\* the mapping modal is open on the null mapping of a header line
FailedMappingWitness ==
    /\ isMappingHeaders
    /\ ~isProcessing
    /\ DOMAIN headerMap = {"Sample", "Depth"}
    /\ headerMap["Sample"] = None /\ headerMap["Depth"] = None

-----------------------------------------------------------------------------
(* The request of generateAgeModel, built on its own *)

MaxPromptPoints == 2

proxyPriority == <<"delta18O", "temperature", "calculatedSST", "alkenoneSST", "tex86">>

\* primaryProxy: the first proxy of the priority among the keys of the first
\* point of the first section, or null
primaryProxy(secs) ==
    IF Len(secs) > 0 /\ Len(secs[1].dataPoints) > 0
    THEN LET firstPointKeys == DOMAIN secs[1].dataPoints[1]
             found == {n \in DOMAIN proxyPriority : proxyPriority[n] \in firstPointKeys}
         IN  IF found = {} THEN None
             ELSE Some(proxyPriority[CHOOSE n \in found : \A m \in found : n <= m])
    ELSE None

\* the point of the request for a local point, as JSON.stringify writes it:
\* a depth that is undefined is not written
PromptPoint(dp, proxy) ==
    [k \in {key \in DOMAIN dp :
               key = "depth" \/ (proxy # None /\ key = proxy[1])} |-> dp[k]]

\* promptData
promptData(secs, tps) ==
    LET proxy == primaryProxy(secs)
    IN  [sections |->
            [s \in DOMAIN secs |->
                [id |-> secs[s].id,
                 dataPoints |->
                    [i \in DOMAIN secs[s].dataPoints |->
                        PromptPoint(secs[s].dataPoints[i], proxy)]]],
         tiePoints |-> tps,
         analysisHint |->
            IF proxy = None THEN None
            ELSE Some("Use the '" \o proxy[1]
                        \o "' proxy data to refine the age model between tie-points.")]

\* the local points of the sections of a request
PromptPoints ==
    {Spread(p, [k \in {"subsection"} |-> "A"]) :
        p \in Objects([depth |-> {Num(10)}, delta18O |-> {Num(1)},
                       temperature |-> {Num(5)}])}

InitPrompt ==
    /\ Idle
    /\ ai = Some("GoogleGenAI")
    /\ fnArgs \in
          {Some([sections |->
                    <<[id |-> "s1", dataPoints |-> dataPoints],
                      [id |-> "s2", dataPoints |-> others]>>,
                 tiePoints |-> <<[sectionId |-> "s1", depth |-> 10, age |-> AgeUnit],
                                 [sectionId |-> "s1", depth |-> 30, age |-> 3 * AgeUnit]>>]) :
              dataPoints \in SeqsUpTo(PromptPoints, MaxPromptPoints),
              others \in SeqsUpTo(PromptPoints, 1)}
    /\ fnResult = None

ReturnPrompt ==
    /\ fnArgs # None /\ fnResult = None
    /\ fnResult' = Some(promptData(fnArgs[1].sections, fnArgs[1].tiePoints))
    /\ UNCHANGED <<dashVars, fnArgs, sessVars, epochFilter, dimVars, synthVars, appVars>>

NextPrompt == ReturnPrompt

SpecPrompt == InitPrompt /\ [][NextPrompt]_vars

\* the proxies that some point of some section has a value for
ProxiesInData(secs) ==
    {key \in {proxyPriority[n] : n \in DOMAIN proxyPriority} :
        \E s \in DOMAIN secs : \E i \in DOMAIN secs[s].dataPoints :
            key \in DOMAIN secs[s].dataPoints[i]}

\* the first proxy of the priority that is in the data, if any
FirstProxyInData(secs) ==
    LET found == {n \in DOMAIN proxyPriority : proxyPriority[n] \in ProxiesInData(secs)}
    IN  IF found = {} THEN None
        ELSE Some(proxyPriority[CHOOSE n \in found : \A m \in found : n <= m])

\* C22: the request carries, on every point that has a value for it, the
\* first proxy of the priority that is present in the sections' data, and no
\* other proxy; the depth of every point is sent; with no proxy in the data
\* no proxy field and no analysis hint are sent.
RequestCarriesFirstProxyInData ==
    fnResult # None =>
        LET secs == fnArgs[1].sections
            sent == fnResult[1]
            proxy == FirstProxyInData(secs)
        IN  /\ \A s \in DOMAIN secs : \A i \in DOMAIN secs[s].dataPoints :
                  LET dp == secs[s].dataPoints[i]
                      point == sent.sections[s].dataPoints[i]
                  IN  /\ "depth" \in DOMAIN point
                      /\ DOMAIN point \ {"depth"} =
                            IF proxy # None /\ proxy[1] \in DOMAIN dp
                            THEN {proxy[1]} ELSE {}
                      /\ \A k \in DOMAIN point : point[k] = dp[k]
            /\ proxy = None => sent.analysisHint = None

-----------------------------------------------------------------------------
(* The rows of a file under a confirmed mapping, mapped on their own *)

MaxRows == 2

\* a cell that Papa.parse, typing dynamically, leaves a string
Str(s) == [t |-> "string", v |-> s]

\* String(value) of a cell
StringOf(value) == IF value.t = "number" THEN ToString(value.v) ELSE value.v

\* String.prototype.replace(',', '.') on the strings a cell can hold
ReplaceComma(s) == IF s = "2,0" THEN "2.0" ELSE s

\* every mapped key counts
AnyKey(mappedKey) == mappedKey # None

\* if (mappedKey): neither undefined, nor null, nor the empty string
Truthy(mappedKey) == mappedKey # None /\ mappedKey # Some("")

\* finalMap[header]: undefined for a header the mapping does not hold
MappedKey(finalMap, header) ==
    IF header \in DOMAIN finalMap THEN finalMap[header] ELSE None

\* value === null || value === '' || typeof value === 'undefined'
EmptyCell(value) == value = Null \/ value = Str("")

\* newRow after the first n headers of the row, in the order of for...in
RECURSIVE NewRow(_, _, _, _)
NewRow(row, headers, finalMap, n) ==
    IF n = 0 THEN << >>
    ELSE LET newRow == NewRow(row, headers, finalMap, n - 1)
             mappedKey == MappedKey(finalMap, headers[n])
             value == row[headers[n]]
             numValue == parseFloat(ReplaceComma(StringOf(value)))
         IN  IF ~Truthy(mappedKey) \/ EmptyCell(value) THEN newRow
             ELSE IF mappedKey[1] = "subsection"
             THEN Spread(newRow, [k \in {"subsection"} |-> StringOf(value)])
             ELSE IF ~isNaN(numValue)
             THEN Spread(newRow, [k \in {mappedKey[1]} |-> numValue])
             ELSE newRow

\* results.data.map(...).filter(dp => Object.keys(dp).length > 0) over the
\* first n rows
RECURSIVE ParsedData(_, _, _, _)
ParsedData(data, headers, finalMap, n) ==
    IF n = 0 THEN << >>
    ELSE LET newRow == NewRow(data[n], headers, finalMap, Len(headers))
             before == ParsedData(data, headers, finalMap, n - 1)
         IN  IF DOMAIN newRow # {} THEN Append(before, newRow) ELSE before

\* the header line of the file
FileHeaders == <<"Sample", "Depth", "Temp">>

\* the rows Papa.parse can read under that header line
FileRows ==
    {r \in [{"Sample", "Depth", "Temp"} -> {Null, Str(""), Str("A"), Str("x"),
                                            Str("2,0"), Num(2), Num(5)}] :
        /\ r["Sample"] \in {Null, Str("A"), Num(2)}
        /\ r["Depth"] \in {Str(""), Num(2), Str("2,0"), Str("x")}
        /\ r["Temp"] \in {Null, Num(5)}}

\* the mappings the modal can be confirmed with
FinalMaps ==
    {[h \in {"Sample", "Depth", "Temp"} |-> None],
     [h \in {"Sample", "Depth", "Temp"} |->
         IF h = "Sample" THEN Some("subsection")
         ELSE IF h = "Depth" THEN Some("depth") ELSE None],
     [h \in {"Sample", "Depth", "Temp"} |->
         IF h = "Sample" THEN Some("") ELSE Some("depth")],
     [h \in {"Sample", "Depth", "Temp"} |->
         IF h = "Sample" THEN None
         ELSE IF h = "Depth" THEN Some("depth") ELSE Some("temperature")],
     [h \in {"Sample", "Depth"} |->
         IF h = "Sample" THEN Some("subsection") ELSE Some("depth")]}

InitRows ==
    /\ Idle
    /\ ai = Some("GoogleGenAI")
    /\ fnArgs \in {Some([data |-> data, finalMap |-> finalMap]) :
                      data \in SeqsUpTo(FileRows, MaxRows), finalMap \in FinalMaps}
    /\ fnResult = None

ReturnRows ==
    /\ fnArgs # None /\ fnResult = None
    /\ fnResult' = Some(ParsedData(fnArgs[1].data, FileHeaders, fnArgs[1].finalMap,
                                   Len(fnArgs[1].data)))
    /\ UNCHANGED <<dashVars, fnArgs, sessVars, epochFilter, dimVars, synthVars, appVars>>

NextRows == ReturnRows

SpecRows == InitRows /\ [][NextRows]_vars

\* the cell is read as a number
ParsesAsNumber(value) == value \in {Num(2), Num(5), Str("2,0")}

\* the headers of the row whose cell is not empty and which the mapping maps
\* to key, a key other than subsection only when the cell is read as a number
HeadersFor(row, finalMap, key) ==
    {h \in DOMAIN finalMap :
        /\ finalMap[h] = Some(key)
        /\ row[h] \notin {Null, Str("")}
        /\ key = "subsection" \/ ParsesAsNumber(row[h])}

\* the keys the row yields
KeysFor(row, finalMap) ==
    {key \in {"subsection", "depth", "temperature"} :
        HeadersFor(row, finalMap, key) # {}}

\* C23: the rows that yield a key give one data point each, in the order of
\* the file, and the rows that yield none give no point; a point holds
\* exactly the keys its row yields; its subsection is the text of a cell
\* mapped to subsection and any other value the number read from a cell
\* mapped to its key.
RowsMappedUnderFinalMap ==
    fnResult # None =>
        LET data == fnArgs[1].data
            finalMap == fnArgs[1].finalMap
            kept == {n \in DOMAIN data : KeysFor(data[n], finalMap) # {}}
            rank(n) == Cardinality({m \in kept : m <= n})
        IN  /\ Len(fnResult[1]) = Cardinality(kept)
            /\ \A n \in kept :
                  LET point == fnResult[1][rank(n)]
                  IN  /\ DOMAIN point = KeysFor(data[n], finalMap)
                      /\ \A key \in DOMAIN point :
                            \E h \in HeadersFor(data[n], finalMap, key) :
                                IF key = "subsection"
                                THEN point[key] = StringOf(data[n][h])
                                ELSE point[key] = Num(2) \/ point[key] = Num(5)

\* two rows under the mapping of Sample and Depth: the first without a usable
\* cell is dropped, the second gives a point with a decimal comma read
RowsMappedWitness ==
    /\ fnResult # None
    /\ Len(fnArgs[1].data) = 2
    /\ fnArgs[1].data[1] = [h \in {"Sample", "Depth", "Temp"} |->
                               IF h = "Sample" THEN Null
                               ELSE IF h = "Depth" THEN Str("x") ELSE Num(5)]
    /\ fnArgs[1].data[2]["Sample"] = Num(2)
    /\ fnArgs[1].data[2]["Depth"] = Str("2,0")
    /\ fnResult[1] = <<[subsection |-> "2", depth |-> Num(2)]>>

-----------------------------------------------------------------------------
(* Manual entries into the sections of a loaded dashboard, in the runs in *)
(* which every remote call succeeds                                        *)

\* the rows of the sections table: two sections, one with a point
EntryRows ==
    <<[id |-> "s1",
       data_points |-> Some(<<[subsection |-> "C", depth |-> Num(3)]>>),
       microfossil_records |-> None,
       lab_analysis |-> None],
      [id |-> "s2",
       data_points |-> None,
       microfossil_records |-> None,
       lab_analysis |-> None]>>

\* what the form holds when Add is pressed: entries that are accepted
EntryForms ==
    {[subsection |-> "A", depth |-> "1", delta18O |-> ""],
     [subsection |-> "B", depth |-> "2", delta18O |-> "4"]}

InitEntries ==
    /\ epochFilter = "all"
    /\ DimIdle
    /\ ai = Some("GoogleGenAI")
    /\ store = EntryRows
    /\ sections = [j \in DOMAIN EntryRows |->
                      WithAverages(dbSectionToAppSection(EntryRows[j]))]
    /\ selectedSection = Some(sections[1])
    /\ loadingSections = FALSE
    /\ calls = << >>
    /\ status = NoStatus
    /\ importJob = None
    /\ now = 0
    /\ nOps = 1
    /\ fnArgs = None
    /\ fnResult = None
    /\ SynthIdle
    /\ AppIdle

NextEntries ==
    \/ \E id \in SectionIds : SelectSection(id)
    \/ \E formState \in EntryForms : handleAddDataPoint(formState)
    \/ StatusTimeout
    \/ \E i \in DOMAIN calls : StoreUpdate(i)
    \/ \E i \in DOMAIN calls : UpdateResolve(i)

SpecEntries == InitEntries /\ [][NextEntries]_vars

\* the series holds a point of the key
HoldsKey(dataPoints, key) ==
    \E i \in DOMAIN dataPoints : dataPoints[i].subsection = key

\* the data_points of the row of the section
StoredPoints(id) ==
    LET row == store[RowIndex(store, id)]
    IN  IF row.data_points = None THEN << >> ELSE row.data_points[1]

\* C24: once every remote call has completed, the series of a section holds,
\* in the dashboard and in the sections table, a point for every manual entry
\* that was accepted for it.
NoAcceptedEntryLost ==
    calls = << >> =>
        \A e \in acceptedEntries :
            /\ HoldsKey(StoredPoints(e[1]), e[2])
            /\ \A j \in DOMAIN sections :
                  sections[j].id = e[1] => HoldsKey(sections[j].dataPoints, e[2])

-----------------------------------------------------------------------------
(* The file import of a loaded dashboard: a callback that is due runs *)

InitImport ==
    /\ epochFilter = "all"
    /\ DimIdle
    /\ ai \in {initializeGeminiClient(API_KEY) : API_KEY \in ApiKeys}
    /\ store = EntryRows
    /\ sections = [j \in DOMAIN EntryRows |->
                      WithAverages(dbSectionToAppSection(EntryRows[j]))]
    /\ selectedSection = Some(sections[1])
    /\ loadingSections = FALSE
    /\ calls = << >>
    /\ status = NoStatus
    /\ importJob = None
    /\ now = 0
    /\ nOps = 1
    /\ fnArgs = None
    /\ fnResult = None
    /\ SynthIdle
    /\ AppIdle

\* the complete callback of the header parse runs
HeaderParseCompletes == \E headers \in HeaderLines : HeaderParseComplete(headers)

\* the mapping call settles and the callback goes on
MapHeadersSettles ==
    \E outcome \in Outcomes, mapping \in AiMappings : MapHeadersSettle(outcome, mapping)

NextImport ==
    \/ \E format \in Formats : handleFileChange(format)
    \/ HeaderParseCompletes
    \/ MapHeadersSettles
    \/ handleCancelMapping
    \/ handleConfirmMapping
    \/ \E parsedDataFromCsv \in Batches : ParseComplete(parsedDataFromCsv)
    \/ \E message \in ParseErrors, inCallback \in {"complete", "error"} :
          ParseFails(message, inCallback)
    \/ StatusTimeout
    \/ \E i \in DOMAIN calls : StoreUpdate(i)
    \/ \E i \in DOMAIN calls : UpdateResolve(i)
    \/ \E i \in DOMAIN calls : UpdateReject(i)

SpecImport ==
    /\ InitImport
    /\ [][NextImport]_vars
    /\ WF_vars(HeaderParseCompletes)
    /\ WF_vars(MapHeadersSettles)

\* C25: an import begun by the selection of a file leaves the processing
\* state, with the mapping modal open or an error on the status line.
ImportLeavesProcessing ==
    (headerJob # None) ~>
        (~isProcessing /\ (isMappingHeaders \/ status.type = "error"))

(***************************************************************************)
(* The session of App and the data it loads                                *)
(***************************************************************************)

\* the sign-ins and sign-outs of a run
MaxSessionOps == 3

\* the users who can sign in
Users == {"u1", "u2"}

\* the remote microfossils table
MicrofossilsTable == <<[id |-> "mf1"]>>

\* the frame of the session's actions: what neither the session nor loadData
\* touches
SessionFrame ==
    UNCHANGED <<store, sections, selectedSection, loadingSections, status, importJob,
                now, epochFilter, dimVars, fnResult, calibratedSections, tiePoints, isLoading,
                error, spliceIntervals, editingCore, isCoreModalOpen,
                confirmModalState, coresTable, foldersTable>>

\* loadData(userId) up to its first await
loadData(userId) ==
    calls' = Append(calls, [kind |-> "load", phase |-> "sent", userId |-> userId,
                            cores |-> << >>, folders |-> << >>,
                            microfossils |-> << >>])

\* onAuthStateChange or getSession hands App a session: setSession(session),
\* then the effect on [session] calls loadData
SignIn(userId) ==
    /\ session = None
    /\ nOps < MaxSessionOps
    /\ nOps' = nOps + 1
    /\ session' = Some(userId)
    /\ loadData(userId)
    /\ SessionFrame
    /\ UNCHANGED <<fnArgs, microfossils, toast, cores, folders, selectedCore>>

\* fetchFoldersAndCores is served: the rows of the user
StoreFetchFoldersAndCores(i) ==
    /\ calls[i].kind = "load" /\ calls[i].phase = "sent"
    /\ LET mine(table) == SelectSeq(table, LAMBDA row : row.user_id = calls[i].userId)
       IN  calls' = [calls EXCEPT
                        ![i].phase = "cores",
                        ![i].cores = [n \in DOMAIN mine(coresTable) |->
                                         dbCoreToAppCore(mine(coresTable)[n])],
                        ![i].folders = mine(foldersTable)]
    /\ SessionFrame
    /\ UNCHANGED <<fnArgs, session, microfossils, nOps, toast, cores, folders, selectedCore>>

\* fetchMicrofossils is served
StoreFetchMicrofossils(i) ==
    /\ calls[i].kind = "load" /\ calls[i].phase = "cores"
    /\ calls' = [calls EXCEPT ![i].phase = "ok",
                              ![i].microfossils = MicrofossilsTable]
    /\ SessionFrame
    /\ UNCHANGED <<fnArgs, session, microfossils, nOps, toast, cores, folders, selectedCore>>

\* loadData after its awaits: setCores, setFolders, setMicrofossils, then
\* the effect on [cores, selectedCore]
LoadResolve(i) ==
    /\ calls[i].kind = "load" /\ calls[i].phase = "ok"
    /\ CommitCores(calls[i].cores, selectedCore)
    /\ folders' = calls[i].folders
    /\ microfossils' = calls[i].microfossils
    /\ calls' = RemoveAt(calls, i)
    /\ SessionFrame
    /\ UNCHANGED <<fnArgs, session, nOps, toast>>

\* one of the fetches fails and the catch of loadData shows a toast
LoadReject(i) ==
    /\ calls[i].kind = "load" /\ calls[i].phase \in {"sent", "cores"}
    /\ toast' = Toast("error", "Error loading data: Failed to fetch")
    /\ calls' = RemoveAt(calls, i)
    /\ SessionFrame
    /\ UNCHANGED <<fnArgs, session, microfossils, nOps, cores, folders, selectedCore>>

\* handleSignOut up to its await
handleSignOut ==
    /\ session # None
    /\ \A i \in DOMAIN calls : calls[i].kind # "signOut"
    /\ nOps < MaxSessionOps
    /\ nOps' = nOps + 1
    /\ calls' = Append(calls, [kind |-> "signOut", phase |-> "sent"])
    /\ SessionFrame
    /\ UNCHANGED <<fnArgs, session, microfossils, toast, cores, folders, selectedCore>>

\* handleSignOut after its await: setSession(null), then the effect on
\* [session] empties the user's data
SignOutResolve(i) ==
    /\ calls[i].kind = "signOut"
    /\ session' = None
    /\ cores' = << >>
    /\ folders' = << >>
    /\ microfossils' = << >>
    /\ selectedCore' = None
    /\ calls' = RemoveAt(calls, i)
    /\ SessionFrame
    /\ UNCHANGED <<fnArgs, nOps, toast>>

\* the user selects a core of the sidebar, which a session shows
SelectCoreSignedIn ==
    /\ session # None
    /\ \E n \in DOMAIN cores : handleSelectCore(cores[n])

\* App before getSession has answered
InitSession ==
    /\ epochFilter = "all"
    /\ DimIdle
    /\ ai = Some("GoogleGenAI")
    /\ store = SeedSections
    /\ sections = << >>
    /\ selectedSection = None
    /\ loadingSections = FALSE
    /\ calls = << >>
    /\ status = NoStatus
    /\ importJob = None
    /\ now = 0
    /\ nOps = 0
    /\ fnArgs = None
    /\ fnResult = None
    /\ SynthIdle
    /\ session = None
    /\ microfossils = << >>
    /\ cores = << >>
    /\ folders = << >>
    /\ selectedCore = None
    /\ editingCore = None
    /\ isCoreModalOpen = FALSE
    /\ confirmModalState = [isOpen |-> FALSE, onConfirm |-> None]
    /\ coresTable = SeedCores
    /\ foldersTable = SeedFolders

NextSession ==
    \/ \E userId \in Users : SignIn(userId)
    \/ \E i \in DOMAIN calls : StoreFetchFoldersAndCores(i)
    \/ \E i \in DOMAIN calls : StoreFetchMicrofossils(i)
    \/ \E i \in DOMAIN calls : LoadResolve(i)
    \/ \E i \in DOMAIN calls : LoadReject(i)
    \/ handleSignOut
    \/ \E i \in DOMAIN calls : SignOutResolve(i)
    \/ SelectCoreSignedIn

SpecSession == InitSession /\ [][NextSession]_vars

\* C26: whenever the session is null, App holds no user data: cores, folders
\* and microfossils are empty and no core is selected, also when a load that
\* began before the sign-out completes after it
SignedOutHoldsNoData ==
    session = None =>
        /\ cores = << >>
        /\ folders = << >>
        /\ microfossils = << >>
        /\ selectedCore = None

-----------------------------------------------------------------------------
(* What the age-model merge leaves alone *)

\* the two points have the same fields with the same values, age aside
SameButAge(dp, final) ==
    /\ DOMAIN final \ {"age"} = DOMAIN dp \ {"age"}
    /\ \A key \in DOMAIN dp \ {"age"} : final[key] = dp[key]

\* the response as far as it names sections of the input
NamedOf(response, localSections) ==
    SelectSeq(response, LAMBDA cs : HasId(localSections, cs.id))

\* C27: age-model generation changes nothing but ages: the result has the
\* sections of the input in their order, each with as many data points in the
\* same order, and every field of every point other than age is as it was;
\* the sections the response names and the input does not have are ignored,
\* and the sections of the input the response omits are returned as they were
GenerationChangesOnlyAges ==
    (fnResult # None /\ ~fnResult[1].thrown) =>
        LET local == fnArgs[1].sections
            final == fnResult[1].finalSections
            response == fnArgs[1].response
        IN  /\ DOMAIN final = DOMAIN local
            /\ \A s \in DOMAIN local :
                  /\ DOMAIN final[s] = DOMAIN local[s]
                  /\ final[s].id = local[s].id
                  /\ DOMAIN final[s].dataPoints = DOMAIN local[s].dataPoints
                  /\ \A i \in DOMAIN local[s].dataPoints :
                        SameButAge(local[s].dataPoints[i], final[s].dataPoints[i])
                  /\ (~HasId(response, local[s].id)) => final[s] = local[s]
            /\ \A s \in DOMAIN local :
                  final[s] = FinalSection(local[s], NamedOf(response, local))

\* a response that names a section the input does not have, and omits one it
\* has, has given an age to a point of another section
OnlyAgesWitness ==
    /\ fnResult # None /\ ~fnResult[1].thrown
    /\ HasId(fnArgs[1].response, "s3")
    /\ ~HasId(fnArgs[1].response, "s2")
    /\ \E i \in DOMAIN fnArgs[1].sections[1].dataPoints :
          /\ "subsection" \in DOMAIN fnResult[1].finalSections[1].dataPoints[i]
          /\ fnResult[1].finalSections[1].dataPoints[i] #
                fnArgs[1].sections[1].dataPoints[i]

(***************************************************************************)
(* The calibrated sections and the sections they were made from            *)
(***************************************************************************)

\* the synthesis view holds what it holds when it is mounted
SynthesisViewFresh == tiePoints = << >> /\ ~isLoading /\ error = None

\* the user leaves the synthesis tab once no generation is under way:
\* CoreSynthesisView is unmounted and its state is lost, while
\* calibratedSections stays with CoreDashboard
LeaveSynthesisTab ==
    /\ ~isLoading
    /\ ~SynthesisViewFresh
    /\ tiePoints' = << >>
    /\ error' = None
    /\ UNCHANGED <<dashVars, fnArgs, sessVars, epochFilter, dimVars, fnResult, appVars,
                   calibratedSections, isLoading, spliceIntervals, toast>>

\* a manual entry from the data-entry tab, made when no call is in flight
EntryOnDataTab(formState) ==
    /\ SynthesisViewFresh
    /\ calls = << >>
    /\ handleAddDataPoint(formState)

\* the dashboard of a core with two sections, as the synthesis tab finds it
InitCalibration == InitSynthesis

NextCalibration ==
    \/ \E tp \in TiePoints : AddTiePoint(tp)
    \/ handleGenerateAgeModel
    \/ \E i \in DOMAIN calls : \E response \in Responses : AgeModelResolve(i, response)
    \/ \E i \in DOMAIN calls : AgeModelReject(i)
    \/ LeaveSynthesisTab
    \/ \E formState \in EntryForms : EntryOnDataTab(formState)
    \/ StatusTimeout
    \/ \E i \in DOMAIN calls : StoreUpdate(i)
    \/ \E i \in DOMAIN calls : UpdateResolve(i)
    \/ \E i \in DOMAIN calls : UpdateReject(i)

SpecCalibration == InitCalibration /\ [][NextCalibration]_vars

\* C28: whenever calibratedSections is not null, each calibrated section has
\* the id of a section of the dashboard and, age aside, the data points of
\* that section
CalibratedDerivedFromSections ==
    calibratedSections # None =>
        \A j \in DOMAIN calibratedSections[1] :
            \E s \in DOMAIN sections :
                /\ sections[s].id = calibratedSections[1][j].id
                /\ DOMAIN sections[s].dataPoints =
                      DOMAIN calibratedSections[1][j].dataPoints
                /\ \A i \in DOMAIN sections[s].dataPoints :
                      SameButAge(sections[s].dataPoints[i],
                                 calibratedSections[1][j].dataPoints[i])

(***************************************************************************)
(* A section written through the gateway and read back                     *)
(***************************************************************************)

\* bound of the series of the section written
MaxWrittenPoints == 2

\* the data points of the section written: with a key, with an empty key or
\* without one; with a finite proxy, with one that is not finite or without
WrittenPoints ==
    LET values == Objects([depth |-> {Num(1)}, delta18O |-> {Num(4), Infinity}])
    IN  values \cup
        {Spread(p, [k \in {"subsection"} |-> s]) : p \in values, s \in {"", "A", "B"}}

\* the fossil records of the section written
WrittenRecords ==
    {<< >>, <<[fossilId |-> "f1", observations |-> "o"]>>}

\* the averages of the section written: none, or one of delta18O
WrittenAnalyses == {None, Some([delta18O |-> [num |-> 4, den |-> 1]])}

\* the row the store holds and returns once updateSection has written the
\* section: the payload as the request body carries it
WrittenRow(appSection) ==
    Spread([id |-> appSection.id], JsonPayload(appSectionToDbPayload(appSection)))

InitRoundTrip ==
    /\ Idle
    /\ ai = Some("GoogleGenAI")
    /\ fnArgs \in {Some([id |-> "s1", dataPoints |-> dataPoints,
                         microfossilRecords |-> records, labAnalysis |-> analysis]) :
                      dataPoints \in SeqsUpTo(WrittenPoints, MaxWrittenPoints),
                      records \in WrittenRecords, analysis \in WrittenAnalyses}
    /\ fnResult = None

ReturnRoundTrip ==
    /\ fnArgs # None /\ fnResult = None
    /\ fnResult' = Some(dbSectionToAppSection(WrittenRow(fnArgs[1])))
    /\ UNCHANGED <<dashVars, fnArgs, sessVars, epochFilter, dimVars, synthVars, appVars>>

NextRoundTrip == ReturnRoundTrip

SpecRoundTrip == InitRoundTrip /\ [][NextRoundTrip]_vars

\* C29: a section whose data points all carry a non-empty subsection is read
\* back with the same data points in the same order, the same fossil records
\* and the same averages; and every data point read has a non-empty
\* subsection, the default key of its position when it was written without
RoundTripPreservesData ==
    fnResult # None =>
        /\ (\A i \in DOMAIN fnArgs[1].dataPoints :
               HasSubsection(fnArgs[1].dataPoints[i]))
              => /\ fnResult[1].dataPoints = fnArgs[1].dataPoints
                 /\ fnResult[1].microfossilRecords = fnArgs[1].microfossilRecords
                 /\ fnResult[1].labAnalysis = fnArgs[1].labAnalysis
        /\ \A i \in DOMAIN fnResult[1].dataPoints :
              /\ HasSubsection(fnResult[1].dataPoints[i])
              /\ ~HasSubsection(fnArgs[1].dataPoints[i])
                    => fnResult[1].dataPoints[i].subsection = DefaultSubsection(i - 1)

(***************************************************************************)
(* The selection and the epoch filter of the dashboard                     *)
(***************************************************************************)

\* availableEpochs
availableEpochs(secs) == {"all"} \cup {EpochOf[secs[j].id] : j \in DOMAIN secs}

\* the epoch select's onChange: setEpochFilter, then the selection effect on
\* the list as the new filter leaves it
handleEpochFilterChange(epoch) ==
    /\ ~loadingSections
    /\ epoch \in availableEpochs(sections)
    /\ epoch # epochFilter
    /\ epochFilter' = epoch
    /\ selectedSection' = SelectionEffect(filteredSections(sections, epoch),
                                          selectedSection)
    /\ UNCHANGED <<store, sections, loadingSections, calls, status, importJob, now,
                   nOps, fnArgs, sessVars, dimVars, fnResult, synthVars, appVars>>

\* the dashboard of a core with two sections of two epochs is mounted
InitFilter ==
    /\ epochFilter = "all"
    /\ DimIdle
    /\ ai = Some("GoogleGenAI")
    /\ store = EntryRows
    /\ sections = << >>
    /\ selectedSection = None
    /\ loadingSections = TRUE
    /\ calls = <<FetchCall(None)>>
    /\ status = NoStatus
    /\ importJob = None
    /\ now = 0
    /\ nOps = 1
    /\ fnArgs = None
    /\ fnResult = None
    /\ SynthIdle
    /\ AppIdle

NextFilter ==
    \/ \E epoch \in {"all", "Holocene", "Pleistocene"} : handleEpochFilterChange(epoch)
    \/ \E id \in SectionIds : SelectSection(id)
    \/ \E formState \in EntryForms : handleAddDataPoint(formState)
    \/ StatusTimeout
    \/ handleDeleteSection
    \/ \E i \in DOMAIN calls : StoreUpdate(i)
    \/ \E i \in DOMAIN calls : UpdateResolve(i)
    \/ \E i \in DOMAIN calls : UpdateReject(i)
    \/ \E i \in DOMAIN calls : StoreSelect(i)
    \/ \E i \in DOMAIN calls : FetchResolve(i)
    \/ \E i \in DOMAIN calls : FetchReject(i)
    \/ \E i \in DOMAIN calls : StoreDelete(i)
    \/ \E i \in DOMAIN calls : DeleteResolve(i)
    \/ \E i \in DOMAIN calls : DeleteReject(i)

SpecFilter == InitFilter /\ [][NextFilter]_vars

\* C30: once the effects have run, no section is selected exactly when the
\* epoch-filtered list is empty, and the selected section otherwise has the
\* id of a section of the filtered list
SelectionFollowsFilter ==
    LET filtered == filteredSections(sections, epochFilter)
    IN  /\ selectedSection = None <=> filtered = << >>
        /\ selectedSection # None => HasId(filtered, selectedSection[1].id)

\* the filter is at an epoch whose last section was deleted: the dashboard
\* holds a section and selects none
SelectionFollowsFilterWitness ==
    /\ epochFilter # "all"
    /\ ~loadingSections
    /\ sections # << >>
    /\ filteredSections(sections, epochFilter) = << >>
    /\ selectedSection = None

=============================================================================
